---- MODULE Spec2Model ----
(***************************************************************************)
(* A model of the process supervisor of src/src/daemon_manager.py: the     *)
(* state document (local/state.json), the OS process table it probes and   *)
(* signals, the wall clock, and the operations add / remove / start /      *)
(* stop / watch sweep.                                                     *)
(*                                                                         *)
(* The specifications share the variables:                                 *)
(*   Spec         callers run one at a time: every operation is one action *)
(*   FairSpec     Spec with the fairness of the periodic watch tick        *)
(*   PolicySpec   the restart policy applied to drawn runtime records      *)
(*   AdminSpec    the operations over two names, with the shutdown         *)
(*   QuerySpec    AdminSpec with the read operations                       *)
(*   DefSpec      add and update with the arguments a caller may give      *)
(*   LocaleSpec   is_our_process on start times of either date ordering    *)
(*   FileSpec     the save of the state file, write by write               *)
(*   MergeSpec    save_config and save_state around a stale load           *)
(*   LogSpec      the log directory: new log paths and the migration       *)
(*   WaitSpec     the polling loops; FairWaitSpec with a running caller    *)
(*   ConcSpec     two callers interleaved at the granularity of the loads  *)
(*                and saves of the state document                          *)
(*   RemoveSpec   ConcSpec with remove_process                             *)
(*   SweepSpec    the sweeps, with the latest restart of each name kept    *)
(*   SignalSpec   Spec with the shutdown                                   *)
(*   AttemptSpec  SignalSpec with update_process                           *)
(*   StartAllSpec AdminSpec with start_all_processes                       *)
(***************************************************************************)
EXTENDS Integers, Sequences, FiniteSets, TLC

VARIABLES
    doc,      \* the persisted state document: name -> entry
    procs,    \* the OS process table: pid -> process
    now,      \* the wall clock, in whole seconds
    last,     \* the operation that ran last, its argument and its result
    pc,       \* each caller's position in its operation
    loc,      \* each caller's local variables; LogSpec: the log directory;
              \* SweepSpec: the latest restart of each name
    ops       \* ConcSpec: the number of operations each caller has begun

vars == <<doc, procs, now, last, pc, loc, ops>>

----------------------------------------------------------------------------
(* Bounds of the model *)

MaxTime == 3
(* ConcSpec: the operations one caller begins *)
MaxOps == 2

(* Python's None, for fields that otherwise hold a number *)
None == 0 - 1

Names == {"web", "db"}
NameSeq == <<"web", "db">>
(* the names the callers of Spec operate on *)
SpecNames == {"web"}
Pids == {1, 2}
Command == 1

----------------------------------------------------------------------------
(* The state document.  An entry of the "processes" mapping is missing     *)
(* (kind "none"), a legacy bare integer pid (kind "int") or a dict.  A     *)
(* key a dict does not hold reads as its .get() default: None, False, 0.   *)

NoEntry ==
    [kind |-> "none", command |-> None, port |-> None, workdir |-> None,
     pid |-> None, start_time |-> None, explicitly_stopped |-> FALSE,
     restart_attempt |-> 0, last_restart_time |-> None, log_path |-> None]

IntEntry(p) == [NoEntry EXCEPT !.kind = "int", !.pid = p]

DictEntry == [NoEntry EXCEPT !.kind = "dict"]

EmptyDoc == [n \in Names |-> NoEntry]

(* load_config: the names whose entry is a dict holding a command *)
load_config(d) == {n \in Names : d[n].kind = "dict" /\ d[n].command # None}

(* load_state: the whole "processes" mapping, definitions included *)
load_state(d) == d

(* save_config for the one entry add_process adds or update_process changes *)
save_config(d, name, command, port, workdir) ==
    LET old == d[name]
        base == IF old.kind = "none" THEN DictEntry
                ELSE IF old.kind = "dict" THEN old
                ELSE [DictEntry EXCEPT !.pid = old.pid]
    IN [d EXCEPT ![name] = [base EXCEPT !.command = command, !.port = port,
                                        !.workdir = workdir]]

(* the preserved_fields loop of save_state: a field the new dict does not  *)
(* hold is taken from the existing one                                     *)
Preserve(new, existing) ==
    [new EXCEPT
        !.command = IF new.command = None THEN existing.command ELSE @,
        !.port = IF new.port = None THEN existing.port ELSE @,
        !.workdir = IF new.workdir = None THEN existing.workdir ELSE @,
        !.log_path = IF new.log_path = None THEN existing.log_path ELSE @]

save_state_entry(existing, new) ==
    IF new.kind = "none" THEN existing
    ELSE IF existing.kind = "none" THEN new
    ELSE IF new.kind = "dict"
         THEN IF existing.kind = "dict" THEN Preserve(new, existing) ELSE new
    ELSE IF existing.kind = "dict"
         THEN Preserve([DictEntry EXCEPT !.pid = new.pid], existing)
    ELSE new

(* save_state: merges the caller's mapping into the document on disk *)
save_state(file, state) ==
    [n \in Names |-> save_state_entry(file[n], state[n])]

----------------------------------------------------------------------------
(* The OS process table *)

DeadProc == [alive |-> FALSE, stime |-> None, owner |-> "", signaled |-> FALSE]

is_process_alive(pr, pid) == pid \in Pids /\ pr[pid].alive

get_process_start_time(pr, pid) ==
    IF pid \in Pids /\ pr[pid].alive THEN pr[pid].stime ELSE None

(* faulty variant: trusts a live pid without comparing start times *)
is_our_process_alive_only(pr, pid, expected_start_time) ==
    is_process_alive(pr, pid)

is_our_process(pr, pid, expected_start_time) ==
    IF ~is_process_alive(pr, pid) THEN FALSE
    ELSE IF expected_start_time = None THEN FALSE
    ELSE IF get_process_start_time(pr, pid) = None THEN FALSE
    ELSE get_process_start_time(pr, pid) = expected_start_time

is_explicitly_stopped(d, name) ==
    IF d[name].kind = "none" THEN FALSE
    ELSE IF d[name].kind = "int" THEN FALSE
    ELSE d[name].explicitly_stopped

(* faulty variant: a live recorded pid counts as running *)
get_process_status_trusting_pid(d, pr, name) ==
    IF d[name].kind = "none" THEN None
    ELSE IF is_process_alive(pr, d[name].pid) THEN d[name].pid
    ELSE None

get_process_status(d, pr, name) ==
    LET e == d[name]
        pid == e.pid
        start_time == IF e.kind = "int" THEN None ELSE e.start_time
    IN IF e.kind = "none" THEN None
       ELSE IF pid = None THEN None
       ELSE IF is_our_process(pr, pid, start_time) THEN pid
       ELSE None

----------------------------------------------------------------------------
(* The restart policy *)

max_backoff == 7200

Min(a, b) == IF a <= b THEN a ELSE b

(* faulty variant: the exponent is off by one *)
backoff_of_off_by_one(attempt) ==
    IF attempt > 29 THEN max_backoff ELSE Min(2 ^ (attempt + 1), max_backoff)

(* min(2 ** attempt, max_backoff).  Python's integers are unbounded; here  *)
(* 2^attempt is computed while it fits a machine integer (attempt <= 30),  *)
(* and beyond that 2^attempt > max_backoff, so the minimum is the cap.     *)
backoff_of(attempt) ==
    IF attempt > 30 THEN max_backoff ELSE Min(2 ^ attempt, max_backoff)

get_restart_backoff_seconds(d, name) ==
    IF d[name].kind = "none" \/ d[name].kind = "int" THEN 1
    ELSE backoff_of(d[name].restart_attempt)

get_last_restart_time(d, name) ==
    IF d[name].kind = "none" \/ d[name].kind = "int" THEN None
    ELSE d[name].last_restart_time

(* faulty variant: restarts although the name was stopped explicitly *)
should_restart_process_ignoring_flag(d, pr, t, name) ==
    IF get_process_status(d, pr, name) # None THEN FALSE
    ELSE IF get_last_restart_time(d, name) = None THEN TRUE
    ELSE t - get_last_restart_time(d, name)
            >= get_restart_backoff_seconds(d, name)

(* faulty variant: waits one second longer than the backoff *)
should_restart_process_strict(d, pr, t, name) ==
    IF is_explicitly_stopped(d, name) THEN FALSE
    ELSE IF get_process_status(d, pr, name) # None THEN FALSE
    ELSE IF get_last_restart_time(d, name) = None THEN TRUE
    ELSE t - get_last_restart_time(d, name)
            > get_restart_backoff_seconds(d, name)

(* faulty variant: restarts without waiting for the backoff *)
should_restart_process_impatient(d, pr, t, name) ==
    IF is_explicitly_stopped(d, name) THEN FALSE
    ELSE get_process_status(d, pr, name) = None

should_restart_process(d, pr, t, name) ==
    IF is_explicitly_stopped(d, name) THEN FALSE
    ELSE IF get_process_status(d, pr, name) # None THEN FALSE
    ELSE IF get_last_restart_time(d, name) = None THEN TRUE
    ELSE t - get_last_restart_time(d, name)
            >= get_restart_backoff_seconds(d, name)

(* faulty variant: counts the attempt without stamping the time *)
increment_entry_no_stamp(e, t) ==
    LET base == IF e.kind = "none" THEN DictEntry
                ELSE IF e.kind = "int" THEN [DictEntry EXCEPT !.pid = e.pid]
                ELSE e
    IN [base EXCEPT !.restart_attempt = @ + 1]

(* the mutation increment_restart_attempt makes to the mapping it loaded *)
increment_entry(e, t) ==
    LET base == IF e.kind = "none" THEN DictEntry
                ELSE IF e.kind = "int" THEN [DictEntry EXCEPT !.pid = e.pid]
                ELSE e
    IN [base EXCEPT !.restart_attempt = @ + 1, !.last_restart_time = t]

increment_restart_attempt(d, t, name) ==
    save_state(d, [d EXCEPT ![name] = increment_entry(d[name], t)])

(* reset_restart_attempt(name); no operation of daemon_manager.py calls it *)
reset_restart_attempt(d, name) ==
    IF d[name].kind # "dict" THEN d
    ELSE save_state(d, [d EXCEPT ![name] =
                           [@ EXCEPT !.restart_attempt = 0,
                                     !.last_restart_time = None]])

----------------------------------------------------------------------------
(* The operations, as functions of the document, the process table and    *)
(* the clock.  Each returns the new document and process table and what   *)
(* the caller gets: ok, the pid, the error raised.                        *)

Result(d, pr, ok, pid, err) ==
    [doc |-> d, procs |-> pr, ok |-> ok, pid |-> pid, err |-> err, logs |-> 0]

(* the operation got as far as get_new_log_path and open(log_path, "w") *)
Logged(r) == [r EXCEPT !.logs = 1]

(* subprocess.Popen with start_new_session: pid p, free until now, runs   *)
Popen(pr, p, name, t) ==
    [pr EXCEPT ![p] = [alive |-> TRUE, stime |-> t, owner |-> name,
                       signaled |-> FALSE]]

(* faulty variant: the record keeps the pid but not the child's start time *)
start_entry_no_start_time(existing, p, start_time, log_path) ==
    [DictEntry EXCEPT
        !.pid = p,
        !.explicitly_stopped = FALSE,
        !.restart_attempt =
            IF existing.kind = "dict" THEN existing.restart_attempt ELSE 0,
        !.last_restart_time =
            IF existing.kind = "dict" THEN existing.last_restart_time ELSE None,
        !.log_path = log_path]

(* faulty variant: the record keeps the flag of the existing one *)
start_entry_keeping_flag(existing, p, start_time, log_path) ==
    [DictEntry EXCEPT
        !.pid = p,
        !.start_time = start_time,
        !.explicitly_stopped =
            IF existing.kind = "dict" THEN existing.explicitly_stopped
            ELSE FALSE,
        !.restart_attempt =
            IF existing.kind = "dict" THEN existing.restart_attempt ELSE 0,
        !.last_restart_time =
            IF existing.kind = "dict" THEN existing.last_restart_time ELSE None,
        !.log_path = log_path]

(* faulty variant: the record starts the restart history afresh *)
start_entry_resetting(existing, p, start_time, log_path) ==
    [DictEntry EXCEPT
        !.pid = p,
        !.start_time = start_time,
        !.explicitly_stopped = FALSE,
        !.log_path = log_path]

(* the record start_process builds from the mapping it loaded *)
start_entry(existing, p, start_time, log_path) ==
    [DictEntry EXCEPT
        !.pid = p,
        !.start_time = start_time,
        !.explicitly_stopped = FALSE,
        !.restart_attempt =
            IF existing.kind = "dict" THEN existing.restart_attempt ELSE 0,
        !.last_restart_time =
            IF existing.kind = "dict" THEN existing.last_restart_time ELSE None,
        !.log_path = log_path]

(* faulty variant: starts the name without asking whether it is running *)
start_process_unchecked(d, pr, t, name, p) ==
    IF name \notin load_config(d)
    THEN Result(d, pr, FALSE, None, "not_found")
    ELSE IF p = None
    THEN Logged(Result(d, pr, FALSE, None, "spawn_failed"))
    ELSE LET pr1 == Popen(pr, p, name, t)
             start_time == get_process_start_time(pr1, p)
             state == [d EXCEPT ![name] = start_entry(d[name], p, start_time, t)]
         IN Logged(Result(save_state(d, state), pr1, TRUE, p, ""))

(* start_process(name); p is the pid the OS gives the child, None when    *)
(* the spawn raises                                                       *)
start_process(d, pr, t, name, p) ==
    IF name \notin load_config(d)
    THEN Result(d, pr, FALSE, None, "not_found")
    ELSE IF get_process_status(d, pr, name) # None
    THEN Result(d, pr, FALSE, None, "already_running")
    ELSE IF p = None
    THEN Logged(Result(d, pr, FALSE, None, "spawn_failed"))
    ELSE LET pr1 == Popen(pr, p, name, t)
             start_time == get_process_start_time(pr1, p)
             state == [d EXCEPT ![name] = start_entry(d[name], p, start_time, t)]
         IN Logged(Result(save_state(d, state), pr1, TRUE, p, ""))

(* os.killpg(os.getpgid(pid), SIGTERM) *)
killpg(pr, pid) == [pr EXCEPT ![pid].signaled = TRUE]

(* faulty variant: an explicit stop starts the backoff afresh *)
stop_entry_resetting(e) ==
    IF e.kind = "none" THEN e
    ELSE IF e.kind = "int"
    THEN [DictEntry EXCEPT !.pid = e.pid, !.explicitly_stopped = TRUE]
    ELSE [e EXCEPT !.explicitly_stopped = TRUE, !.restart_attempt = 0,
                   !.last_restart_time = None]

(* the mutation stop_process makes to the mapping it loaded *)
stop_entry(e) ==
    IF e.kind = "none" THEN e
    ELSE IF e.kind = "int"
    THEN [DictEntry EXCEPT !.pid = e.pid, !.explicitly_stopped = TRUE]
    ELSE [e EXCEPT !.explicitly_stopped = TRUE]

(* faulty variant: the flag is saved before the status is looked at *)
stop_process_marking_first(d, pr, name, mark_explicit, gone) ==
    LET pid == get_process_status(d, pr, name)
        state == [d EXCEPT ![name] = stop_entry(d[name])]
        d1 == IF mark_explicit THEN save_state(d, state) ELSE d
    IN IF pid = None
       THEN Result(d1, pr, FALSE, None, "not_running")
       ELSE IF gone
       THEN Result(d1, [pr EXCEPT ![pid] = DeadProc], FALSE, pid,
                   "signal_failed")
       ELSE Result(d1, killpg(pr, pid), TRUE, pid, "")

(* stop_process(name, mark_explicit); gone: the process exited between    *)
(* the status probe and the signal, so os.getpgid raises OSError          *)
stop_process(d, pr, name, mark_explicit, gone) ==
    LET pid == get_process_status(d, pr, name)
    IN IF pid = None
       THEN Result(d, pr, FALSE, None, "not_running")
       ELSE IF gone
       THEN Result(d, [pr EXCEPT ![pid] = DeadProc], FALSE, pid, "signal_failed")
       ELSE LET pr1 == killpg(pr, pid)
                state == [d EXCEPT ![name] = stop_entry(d[name])]
            IN IF mark_explicit
               THEN Result(save_state(d, state), pr1, TRUE, pid, "")
               ELSE Result(d, pr1, TRUE, pid, "")

(* the directories that exist, by number; Cwd is Path.cwd() *)
Cwd == 1
ExistingDirs == {1, 2}

(* Path(workdir).expanduser().resolve(): 4 is another spelling (relative,  *)
(* through ~ or a symlink) of directory 2; 3 resolves to itself and is no  *)
(* directory                                                               *)
Resolve(workdir) == IF workdir = 4 THEN 2 ELSE workdir

MinPort == 1
MaxPort == 65535

(* faulty variant: port 0 passes the check *)
InvalidPort_from_zero(port) == port # None /\ (port < 0 \/ port > MaxPort)

(* the port check add_process and update_process share; ports are ints *)
InvalidPort(port) == port # None /\ (port < MinPort \/ port > MaxPort)

(* the workdir check add_process and update_process share *)
InvalidWorkdir(workdir) ==
    workdir # None /\ Resolve(workdir) \notin ExistingDirs

(* add_process(name, command, port, workdir) *)
add_process(d, pr, name, command, port, workdir) ==
    IF name \in load_config(d)
    THEN Result(d, pr, FALSE, None, "already_exists")
    ELSE IF InvalidPort(port)
    THEN Result(d, pr, FALSE, None, "invalid_port")
    ELSE IF InvalidWorkdir(workdir)
    THEN Result(d, pr, FALSE, None, "invalid_workdir")
    ELSE Result(save_config(d, name, command, port,
                            IF workdir = None THEN Cwd ELSE Resolve(workdir)),
                pr, TRUE, None, "")

(* faulty variant: the port is saved before the workdir is looked at *)
update_process_partial(d, pr, name, port, workdir) ==
    IF name \notin load_config(d)
    THEN Result(d, pr, FALSE, None, "not_found")
    ELSE IF InvalidPort(port)
    THEN Result(d, pr, FALSE, None, "invalid_port")
    ELSE LET d1 == save_config(d, name, d[name].command,
                               IF port # None THEN port ELSE d[name].port,
                               d[name].workdir)
         IN IF InvalidWorkdir(workdir)
            THEN Result(d1, pr, FALSE, None, "invalid_workdir")
            ELSE Result(save_config(d1, name, d1[name].command, d1[name].port,
                                    IF workdir # None THEN Resolve(workdir)
                                    ELSE d1[name].workdir),
                        pr, TRUE, None, "")

(* update_process(name, port, workdir) *)
update_process(d, pr, name, port, workdir) ==
    IF name \notin load_config(d)
    THEN Result(d, pr, FALSE, None, "not_found")
    ELSE IF InvalidPort(port)
    THEN Result(d, pr, FALSE, None, "invalid_port")
    ELSE IF InvalidWorkdir(workdir)
    THEN Result(d, pr, FALSE, None, "invalid_workdir")
    ELSE Result(save_config(d, name, d[name].command,
                            IF port # None THEN port ELSE d[name].port,
                            IF workdir # None THEN Resolve(workdir)
                            ELSE d[name].workdir),
                pr, TRUE, None, "")

(* faulty variant: reports the recorded pid without verifying it *)
list_processes_recorded(d, pr) ==
    [n \in load_config(d) |->
        [command |-> d[n].command, pid |-> d[n].pid,
         port |-> d[n].port, workdir |-> d[n].workdir]]

(* list_processes(): the status-enriched view over the definitions *)
list_processes(d, pr) ==
    [n \in load_config(d) |->
        [command |-> d[n].command, pid |-> get_process_status(d, pr, n),
         port |-> d[n].port, workdir |-> d[n].workdir]]

(* remove_process(name) *)
remove_process(d, pr, name, gone) ==
    IF name \notin load_config(d)
    THEN Result(d, pr, FALSE, None, "not_found")
    ELSE LET pid == get_process_status(d, pr, name)
             stopped == IF pid # None
                        THEN stop_process(d, pr, name, TRUE, gone)
                        ELSE Result(d, pr, TRUE, None, "")
         IN IF ~stopped.ok
            THEN stopped
            ELSE Result([stopped.doc EXCEPT ![name] = NoEntry], stopped.procs,
                        TRUE, pid, "")

(* shutdown_all_processes over the names of the config it loaded.         *)
(* fate[name]: "gone" when the process exits before the signal (the stop   *)
(* raises and is caught), "dies" when it exits within the timeout of       *)
(* wait_for_process_death, "survives" when it does not.  stopped: the      *)
(* names whose stop returned; reported: the names a message was printed    *)
(* for, the failure of the stop or the warning of the timeout              *)
RECURSIVE shutdown_loop_aborting(_, _, _, _, _, _, _)
(* faulty variant: the stop that raises ends the loop *)
shutdown_loop_aborting(d, pr, config, i, fate, stopped, reported) ==
    IF i > Len(NameSeq)
    THEN [doc |-> d, procs |-> pr, stopped |-> stopped, reported |-> reported]
    ELSE LET name == NameSeq[i]
             pid == get_process_status(d, pr, name)
         IN IF name \notin config \/ pid = None
            THEN shutdown_loop_aborting(d, pr, config, i + 1, fate, stopped,
                                        reported)
            ELSE CHOOSE w \in
                   {IF ~r.ok
                    THEN [doc |-> r.doc, procs |-> r.procs,
                          stopped |-> stopped,
                          reported |-> reported \cup {name}]
                    ELSE shutdown_loop_aborting(
                        r.doc,
                        IF fate[name] = "dies"
                        THEN [r.procs EXCEPT ![pid] = DeadProc] ELSE r.procs,
                        config, i + 1, fate, stopped \cup {name},
                        IF fate[name] = "dies" THEN reported
                        ELSE reported \cup {name}) :
                      r \in {stop_process(d, pr, name, FALSE,
                                          fate[name] = "gone")}} : TRUE

RECURSIVE shutdown_loop(_, _, _, _, _, _, _)
shutdown_loop(d, pr, config, i, fate, stopped, reported) ==
    IF i > Len(NameSeq)
    THEN [doc |-> d, procs |-> pr, stopped |-> stopped, reported |-> reported]
    ELSE LET name == NameSeq[i]
             pid == get_process_status(d, pr, name)
         IN IF name \notin config \/ pid = None
            THEN shutdown_loop(d, pr, config, i + 1, fate, stopped, reported)
            ELSE CHOOSE w \in
                   {shutdown_loop(
                        r.doc,
                        IF r.ok /\ fate[name] = "dies"
                        THEN [r.procs EXCEPT ![pid] = DeadProc] ELSE r.procs,
                        config, i + 1, fate,
                        IF r.ok THEN stopped \cup {name} ELSE stopped,
                        IF r.ok /\ fate[name] = "dies" THEN reported
                        ELSE reported \cup {name}) :
                      r \in {stop_process(d, pr, name, FALSE,
                                          fate[name] = "gone")}} : TRUE

(* faulty variant: the stops of the shutdown mark the names explicitly *)
shutdown_all_processes_marking(d, pr, fate) ==
    LET r == shutdown_loop(d, pr, load_config(d), 1, fate, {}, {})
    IN [r EXCEPT !.doc = [n \in Names |->
                            IF n \in r.stopped THEN stop_entry(r.doc[n])
                            ELSE r.doc[n]]]

shutdown_all_processes(d, pr, fate) ==
    shutdown_loop(d, pr, load_config(d), 1, fate, {}, {})

(* faulty variant: a start that fails takes the counted attempt back *)
watch_one_forgetting(d, pr, t, name, p) ==
    IF ~should_restart_process(d, pr, t, name)
    THEN Result(d, pr, TRUE, None, "skipped")
    ELSE LET r == start_process(increment_restart_attempt(d, t, name), pr, t,
                                name, p)
         IN IF r.ok THEN r ELSE [r EXCEPT !.doc = d]

(* faulty variant: counts the attempt and does not start the process *)
watch_one_no_start(d, pr, t, name, p) ==
    IF ~should_restart_process(d, pr, t, name)
    THEN Result(d, pr, TRUE, None, "skipped")
    ELSE Logged(Result(increment_restart_attempt(d, t, name), pr, FALSE,
                       None, "spawn_failed"))

(* one iteration of the loop of watch_and_restart_processes.  (The sets    *)
(* of one element bind a value once it is computed.)                       *)
watch_one(d, pr, t, name, p) ==
    IF ~should_restart_process(d, pr, t, name)
    THEN Result(d, pr, TRUE, None, "skipped")
    ELSE CHOOSE r \in {start_process(d1, pr, t, name, p) :
                        d1 \in {increment_restart_attempt(d, t, name)}} : TRUE

(* faulty variant: the first start that fails ends the sweep *)
RECURSIVE watch_loop_aborting(_, _, _, _, _, _, _, _)
watch_loop_aborting(d, pr, t, config, i, outcome, attempted, started) ==
    IF i > Len(NameSeq)
    THEN [doc |-> d, procs |-> pr, attempted |-> attempted, started |-> started]
    ELSE IF NameSeq[i] \notin config
    THEN watch_loop_aborting(d, pr, t, config, i + 1, outcome, attempted,
                             started)
    ELSE LET name == NameSeq[i]
             r == watch_one(d, pr, t, name, outcome[name])
         IN IF r.err = "skipped"
            THEN watch_loop_aborting(r.doc, r.procs, t, config, i + 1,
                                     outcome, attempted, started)
            ELSE IF r.ok
            THEN watch_loop_aborting(r.doc, r.procs, t, config, i + 1,
                                     outcome, attempted \cup {name},
                                     started \cup {name})
            ELSE [doc |-> r.doc, procs |-> r.procs,
                  attempted |-> attempted \cup {name}, started |-> started]

(* watch_and_restart_processes over the names of the config it loaded,    *)
(* in the order of the document; outcome[name] is the pid the OS gives    *)
(* that name's child, None when its spawn raises                          *)
RECURSIVE watch_loop(_, _, _, _, _, _, _, _)
watch_loop(d, pr, t, config, i, outcome, attempted, started) ==
    IF i > Len(NameSeq)
    THEN [doc |-> d, procs |-> pr, attempted |-> attempted, started |-> started]
    ELSE IF NameSeq[i] \notin config
    THEN watch_loop(d, pr, t, config, i + 1, outcome, attempted, started)
    ELSE LET name == NameSeq[i]
         IN CHOOSE w \in
                {watch_loop(r.doc, r.procs, t, config, i + 1, outcome,
                            IF r.err = "skipped" THEN attempted
                            ELSE attempted \cup {name},
                            IF r.ok /\ r.err = "" THEN started \cup {name}
                            ELSE started) :
                   r \in {watch_one(d, pr, t, name, outcome[name])}} : TRUE

watch_and_restart_processes(d, pr, t, outcome) ==
    watch_loop(d, pr, t, load_config(d), 1, outcome, {}, {})

(* faulty variant: leaves a name that was stopped explicitly alone *)
start_all_one_respecting_flag(d, pr, t, name, p) ==
    IF get_process_status(d, pr, name) # None \/ is_explicitly_stopped(d, name)
    THEN Result(d, pr, TRUE, None, "skipped")
    ELSE start_process(d, pr, t, name, p)

(* one iteration of the loop of start_all_processes: the exception of a    *)
(* start that fails is caught and printed                                  *)
start_all_one(d, pr, t, name, p) ==
    IF get_process_status(d, pr, name) # None
    THEN Result(d, pr, TRUE, None, "skipped")
    ELSE start_process(d, pr, t, name, p)

(* start_all_processes over the names of the config it loaded; outcome as  *)
(* in watch_loop                                                           *)
RECURSIVE start_all_loop(_, _, _, _, _, _, _, _)
start_all_loop(d, pr, t, config, i, outcome, attempted, started) ==
    IF i > Len(NameSeq)
    THEN [doc |-> d, procs |-> pr, attempted |-> attempted, started |-> started]
    ELSE IF NameSeq[i] \notin config
    THEN start_all_loop(d, pr, t, config, i + 1, outcome, attempted, started)
    ELSE LET name == NameSeq[i]
         IN CHOOSE w \in
                {start_all_loop(r.doc, r.procs, t, config, i + 1, outcome,
                                IF r.err = "skipped" THEN attempted
                                ELSE attempted \cup {name},
                                IF r.ok /\ r.err = "" THEN started \cup {name}
                                ELSE started) :
                   r \in {start_all_one(d, pr, t, name, outcome[name])}} : TRUE

start_all_processes(d, pr, t, outcome) ==
    start_all_loop(d, pr, t, load_config(d), 1, outcome, {}, {})

----------------------------------------------------------------------------
(* Spec: the callers run one at a time, each operation is one action; the  *)
(* environment advances the clock, ends processes and starts unrelated    *)
(* ones, which may take a pid that is free again.                         *)

Last(op, name, r) ==
    [op |-> op, name |-> name, ok |-> r.ok, pid |-> r.pid, err |-> r.err,
     logs |-> r.logs, command |-> None, port |-> None, workdir |-> None,
     attempted |-> {}, started |-> {}, refused |-> {}]

LastEnv ==
    [op |-> "env", name |-> "", ok |-> TRUE, pid |-> None, err |-> "",
     logs |-> 0, command |-> None, port |-> None, workdir |-> None,
     attempted |-> {}, started |-> {}, refused |-> {}]

FreePids(pr) == {p \in Pids : ~pr[p].alive}

Idle == [c \in {} |-> 0]

(* the document a run may start from: empty, or holding legacy bare-integer *)
(* pids written before start times were tracked                            *)
Init ==
    /\ doc \in {[EmptyDoc EXCEPT !["web"] = e] : e \in {NoEntry, IntEntry(1)}}
    /\ procs = [p \in Pids |-> DeadProc]
    /\ now = 0
    /\ last = LastEnv
    /\ pc = Idle
    /\ loc = Idle
    /\ ops = Idle

Tick ==
    /\ now < MaxTime
    /\ now' = now + 1
    /\ last' = LastEnv
    /\ UNCHANGED <<doc, procs, pc, loc, ops>>

(* a process exits: it crashed, finished, or obeyed a signal *)
Die(p) ==
    /\ procs[p].alive
    /\ procs' = [procs EXCEPT ![p] = DeadProc]
    /\ last' = LastEnv
    /\ UNCHANGED <<doc, now, pc, loc, ops>>

(* an unrelated process starts and is given a free pid that the document  *)
(* still records: the pid is reused                                        *)
ForeignSpawn(p) ==
    /\ ~procs[p].alive
    /\ \E n \in Names : doc[n].pid = p
    /\ procs' = [procs EXCEPT ![p] = [alive |-> TRUE, stime |-> now,
                                      owner |-> "other", signaled |-> FALSE]]
    /\ last' = LastEnv
    /\ UNCHANGED <<doc, now, pc, loc, ops>>

Apply(op, name, r) ==
    /\ doc' = r.doc
    /\ procs' = r.procs
    /\ last' = Last(op, name, r)
    /\ UNCHANGED <<now, pc, loc, ops>>

Add(name) ==
    Apply("add", name, add_process(doc, procs, name, Command, None, Cwd))

Remove(name, gone) ==
    Apply("remove", name, remove_process(doc, procs, name, gone))

Start(name, p) ==
    /\ p \in FreePids(procs) \cup {None}
    /\ Apply("start", name, start_process(doc, procs, now, name, p))

Stop(name, mark_explicit, gone) ==
    Apply(IF mark_explicit THEN "stop" ELSE "stop_unmarked", name,
          stop_process(doc, procs, name, mark_explicit, gone))

(* the names a sweep starting now restarts *)
Eligible(d, pr, t) ==
    {n \in load_config(d) : should_restart_process(d, pr, t, n)}

SweepStep(outcome) ==
    /\ \A n \in Names \ Eligible(doc, procs, now) : outcome[n] = None
    /\ \A n \in Eligible(doc, procs, now) :
          outcome[n] \in FreePids(procs) \cup {None}
    /\ \A n, m \in Eligible(doc, procs, now) :
          n # m /\ outcome[n] # None => outcome[n] # outcome[m]
    /\ \E r \in {watch_and_restart_processes(doc, procs, now, outcome)} :
          /\ doc' = r.doc
          /\ procs' = r.procs
          /\ last' = [LastEnv EXCEPT !.op = "watch",
                                     !.logs = Cardinality(r.attempted),
                                     !.attempted = r.attempted,
                                     !.started = r.started,
                                     !.refused =
                                        {n \in Eligible(doc, procs, now) :
                                            outcome[n] = None}]

Sweep(outcome) ==
    /\ SweepStep(outcome)
    /\ UNCHANGED <<now, pc, loc, ops>>

Next ==
    \/ Tick
    \/ \E p \in Pids : Die(p)
    \/ \E p \in Pids : ForeignSpawn(p)
    \/ \E n \in SpecNames : Add(n)
    \/ \E n \in SpecNames, gone \in BOOLEAN : Remove(n, gone)
    \/ \E n \in SpecNames, p \in Pids \cup {None} : Start(n, p)
    \/ \E n \in SpecNames, m \in BOOLEAN, gone \in BOOLEAN : Stop(n, m, gone)
    \/ \E outcome \in [Names -> Pids \cup {None}] : Sweep(outcome)

Spec == Init /\ [][Next]_vars

(* FairSpec: the watch tick keeps coming, the clock keeps advancing, and   *)
(* the sweeps whose spawns all succeed are not postponed forever.          *)

LowestFree(pr) == CHOOSE p \in FreePids(pr) : \A q \in FreePids(pr) : p <= q
HighestFree(pr) == CHOOSE p \in FreePids(pr) : \A q \in FreePids(pr) : p >= q

(* a sweep in which the spawn of every eligible name succeeds *)
SweepOK ==
    /\ Cardinality(FreePids(procs)) >= Cardinality(Eligible(doc, procs, now))
    /\ Sweep([n \in Names |->
                IF n \notin Eligible(doc, procs, now) THEN None
                ELSE IF n = NameSeq[1] THEN LowestFree(procs)
                ELSE HighestFree(procs)])

FairSpec == Spec /\ WF_vars(Tick) /\ WF_vars(SweepOK)

----------------------------------------------------------------------------
(* PolicySpec: the restart policy applied to the runtime records a test    *)
(* writes with save_state: any flag, any attempt count, any last restart   *)
(* time, the recorded process running or not, at times around the backoff. *)

MaxAttemptDrawn == 14
AttemptsDrawn == (0..MaxAttemptDrawn) \cup {30, 31, 100}

(* min(2^n, 7200) by repeated doubling; 2^13 = 8192 is past the cap, and   *)
(* so is every later power                                                 *)
RECURSIVE CappedPow2(_)
CappedPow2(n) ==
    IF n = 0 THEN 1
    ELSE IF n > 13 THEN 7200
    ELSE LET half == CappedPow2(n - 1) IN Min(2 * half, 7200)

PolicyInit ==
    /\ \E kind \in {"none", "int", "dict"}, a \in AttemptsDrawn,
          l \in {None, 0, 1}, x \in BOOLEAN, p \in {None, 1} :
          doc = [EmptyDoc EXCEPT !["web"] =
                    IF kind = "none" THEN NoEntry
                    ELSE IF kind = "int" THEN IntEntry(1)
                    ELSE [DictEntry EXCEPT !.command = Command,
                                           !.pid = p,
                                           !.start_time = IF p = None THEN None ELSE 0,
                                           !.explicitly_stopped = x,
                                           !.restart_attempt = a,
                                           !.last_restart_time = l]]
    /\ procs \in {[p \in Pids |-> DeadProc],
                  [[p \in Pids |-> DeadProc] EXCEPT
                      ![1] = [alive |-> TRUE, stime |-> 0, owner |-> "web",
                              signaled |-> FALSE]]}
    /\ \E d \in {0 - 1, 0, 1} :
          now = IF doc["web"].last_restart_time = None THEN d + 1
                ELSE doc["web"].last_restart_time
                       + CappedPow2(doc["web"].restart_attempt) + d
    /\ last = LastEnv
    /\ pc = Idle
    /\ loc = Idle
    /\ ops = Idle

PolicyShouldRestart ==
    /\ last' = [LastEnv EXCEPT
                    !.op = "should_restart", !.name = "web",
                    !.ok = should_restart_process(doc, procs, now, "web")]
    /\ UNCHANGED <<doc, procs, now, pc, loc, ops>>

PolicyBackoff ==
    /\ last' = [LastEnv EXCEPT
                    !.op = "backoff", !.name = "web",
                    !.pid = get_restart_backoff_seconds(doc, "web")]
    /\ UNCHANGED <<doc, procs, now, pc, loc, ops>>

(* increment_restart_attempt, then the backoff of the new count *)
PolicyIncrement ==
    /\ doc["web"].restart_attempt < MaxAttemptDrawn
    /\ doc' = increment_restart_attempt(doc, now, "web")
    /\ last' = [LastEnv EXCEPT
                    !.op = "increment", !.name = "web",
                    !.pid = get_restart_backoff_seconds(doc', "web")]
    /\ UNCHANGED <<procs, now, pc, loc, ops>>

PolicyNext == PolicyShouldRestart \/ PolicyBackoff \/ PolicyIncrement

PolicySpec == PolicyInit /\ [][PolicyNext]_vars

----------------------------------------------------------------------------
(* AdminSpec: the operations over both names (add, remove, start, stop,    *)
(* shutdown, watch sweep), the callers running one at a time.  The clock   *)
(* stands still, so every start time is the same, and the system gives a   *)
(* child no pid that the document records for another name.                *)

Fates == {"gone", "dies", "survives"}

(* the pids the system may give a child of the name *)
FreshPids(name) ==
    {p \in FreePids(procs) : \A m \in Names \ {name} : doc[m].pid # p}

AdminInit ==
    /\ doc \in {EmptyDoc, [EmptyDoc EXCEPT !["db"] = IntEntry(2)]}
    /\ procs = [p \in Pids |-> DeadProc]
    /\ now = 0
    /\ last = LastEnv
    /\ pc = Idle
    /\ loc = Idle
    /\ ops = Idle

AdminStart(name, p) ==
    /\ p \in FreshPids(name) \cup {None}
    /\ Start(name, p)

AdminSweep(outcome) ==
    /\ \A n \in Names : outcome[n] # None => outcome[n] \in FreshPids(n)
    /\ Sweep(outcome)

Shutdown(fate) ==
    /\ \A n \in Names :
          get_process_status(doc, procs, n) = None => fate[n] = "survives"
    /\ \E r \in {shutdown_all_processes(doc, procs, fate)} :
          /\ doc' = r.doc
          /\ procs' = r.procs
          /\ last' = [LastEnv EXCEPT !.op = "shutdown",
                                     !.attempted = r.stopped,
                                     !.refused = r.reported]
    /\ UNCHANGED <<now, pc, loc, ops>>

AdminNext ==
    \/ \E n \in Names : Add(n)
    \/ \E n \in Names, gone \in BOOLEAN : Remove(n, gone)
    \/ \E n \in Names, p \in Pids \cup {None} : AdminStart(n, p)
    \/ \E n \in Names, m \in BOOLEAN, gone \in BOOLEAN : Stop(n, m, gone)
    \/ \E fate \in [Names -> Fates] : Shutdown(fate)
    \/ \E outcome \in [Names -> Pids \cup {None}] : AdminSweep(outcome)
    \/ \E p \in Pids : Die(p)

AdminSpec == AdminInit /\ [][AdminNext]_vars

----------------------------------------------------------------------------
(* QuerySpec: AdminSpec with the callers also asking for the status of a   *)
(* name, for the list of the processes and whether a name is due for a     *)
(* restart.  The three functions read the document with load_config and    *)
(* load_state and write nothing.                                           *)

(* faulty variant: a pid found stale is taken out of the record *)
query_status_clearing(d, pr, name) ==
    LET pid == get_process_status(d, pr, name)
    IN Result(IF pid = None /\ d[name].kind = "dict"
              THEN [d EXCEPT ![name].pid = None, ![name].start_time = None]
              ELSE d,
              pr, TRUE, pid, "")

(* get_process_status(name) as an operation: its result and the document *)
query_status(d, pr, name) ==
    Result(d, pr, TRUE, get_process_status(d, pr, name), "")

(* list_processes() as an operation; the pids it reports are last.started *)
query_list(d, pr) == Result(d, pr, TRUE, None, "")

(* should_restart_process(name) as an operation; its answer is last.ok *)
query_should_restart(d, pr, t, name) ==
    Result(d, pr, should_restart_process(d, pr, t, name), None, "")

GetStatus(name) ==
    Apply("status", name, query_status(doc, procs, name))

ListProcesses ==
    /\ doc' = query_list(doc, procs).doc
    /\ procs' = query_list(doc, procs).procs
    /\ last' = [LastEnv EXCEPT
                   !.op = "list",
                   !.started = {n \in DOMAIN list_processes(doc, procs) :
                                  list_processes(doc, procs)[n].pid # None}]
    /\ UNCHANGED <<now, pc, loc, ops>>

ShouldRestart(name) ==
    Apply("should_restart", name,
          query_should_restart(doc, procs, now, name))

QueryNext ==
    \/ AdminNext
    \/ \E n \in Names : GetStatus(n)
    \/ ListProcesses
    \/ \E n \in Names : ShouldRestart(n)

QuerySpec == AdminInit /\ [][QueryNext]_vars

----------------------------------------------------------------------------
(* DefSpec: the operations on one definition, with the ports and workdirs  *)
(* a caller may give, valid and invalid.                                   *)

(* a path that is no directory *)
NoSuchDir == 3

CommandsDrawn == {Command, Command + 1}
PortsDrawn == {None, MinPort - 1, MinPort, MaxPort, MaxPort + 1}
WorkdirsDrawn == {None, 2, NoSuchDir, 4}

(* an operation on a definition, with the arguments it was given *)
ApplyDef(op, name, command, port, workdir, r) ==
    /\ doc' = r.doc
    /\ procs' = r.procs
    /\ last' = [Last(op, name, r) EXCEPT !.command = command, !.port = port,
                                         !.workdir = workdir]
    /\ UNCHANGED <<now, pc, loc, ops>>

DefAdd(name, command, port, workdir) ==
    ApplyDef("add", name, command, port, workdir,
             add_process(doc, procs, name, command, port, workdir))

DefUpdate(name, port, workdir) ==
    ApplyDef("update", name, None, port, workdir,
             update_process(doc, procs, name, port, workdir))

DefNext ==
    \/ \E n \in SpecNames, c \in CommandsDrawn, port \in PortsDrawn,
          w \in WorkdirsDrawn : DefAdd(n, c, port, w)
    \/ \E n \in SpecNames, port \in PortsDrawn, w \in WorkdirsDrawn :
          DefUpdate(n, port, w)
    \/ \E n \in SpecNames, gone \in BOOLEAN : Remove(n, gone)
    \/ \E n \in SpecNames, p \in Pids \cup {None} : Start(n, p)
    \/ \E n \in SpecNames, m \in BOOLEAN, gone \in BOOLEAN : Stop(n, m, gone)
    \/ \E p \in Pids : Die(p)
    \/ \E p \in Pids : ForeignSpawn(p)

DefSpec == Init /\ [][DefNext]_vars

----------------------------------------------------------------------------
(* LocaleSpec: is_our_process on start-time strings written under either   *)
(* date ordering.  `ps -o lstart=` prints the start of a process as        *)
(* "Mon Jan 26 10:35:12 2026" or as "Mon 26 Jan 10:35:12 2026" according   *)
(* to the locale of the caller, and the string recorded by a start under   *)
(* one locale is compared by a probe that may run under the other.  A      *)
(* string is the number 2 * instant + ordering: different strings are      *)
(* different numbers.                                                      *)

Instants == {0, 1}
MonthDay == 0
DayMonth == 1
lstart(instant, ordering) == 2 * instant + ordering
LStarts == {lstart(i, o) : i \in Instants, o \in {MonthDay, DayMonth}}
(* the instant a start-time string denotes *)
Instant(s) == s \div 2

LocaleInit ==
    /\ doc \in {[EmptyDoc EXCEPT !["web"] =
                    [DictEntry EXCEPT !.command = Command, !.pid = p,
                                      !.start_time = t]] :
                  p \in Pids, t \in LStarts \cup {None}}
    /\ procs \in [Pids -> {DeadProc} \cup
                    {[DeadProc EXCEPT !.alive = TRUE, !.stime = t,
                                      !.owner = "web"] : t \in LStarts}]
    /\ now = 0
    /\ last = LastEnv
    /\ pc = Idle
    /\ loc = Idle
    /\ ops = Idle

(* a caller probes the recorded pid of a name *)
Probe(name) ==
    /\ last' = [LastEnv EXCEPT
                   !.op = "probe", !.name = name,
                   !.ok = is_our_process(procs, doc[name].pid,
                                         doc[name].start_time)]
    /\ UNCHANGED <<doc, procs, now, pc, loc, ops>>

LocaleNext ==
    \/ \E name \in SpecNames : Probe(name)
    \/ \E p \in Pids : Die(p)

LocaleSpec == LocaleInit /\ [][LocaleNext]_vars

----------------------------------------------------------------------------
(* FileSpec: _save_state_file at the granularity of its writes.            *)
(* open(state_path, "w") empties the file, json.dump then writes the       *)
(* document piece by piece (the entries in order, then the closing         *)
(* braces), and the process may be killed between any two of the steps.    *)
(* While a save is under way the file holds a truncated text, which is no  *)
(* document: doc is then [truncated |-> the pieces written so far].        *)

Saver == "cli"

Chunks(d) == [i \in 1..Len(NameSeq) |-> d[NameSeq[i]]]
(* the pieces of a complete text: the entries and the closing braces *)
ChunkCount == Len(NameSeq) + 1

Truncated(text) == [truncated |-> text]
IsTruncated(file) == DOMAIN file = {"truncated"}

(* the file after json.dump has written k pieces of data *)
FileAfter(data, k) ==
    IF k = ChunkCount THEN data
    ELSE Truncated(SubSeq(Chunks(data), 1, k))

FilePorts == {None, MinPort}

FileInit ==
    /\ doc = EmptyDoc
    /\ procs = [p \in Pids |-> DeadProc]
    /\ now = 0
    /\ last = LastEnv
    /\ pc = [c \in {Saver} |-> "idle"]
    /\ loc = [c \in {Saver} |-> [prev |-> EmptyDoc, data |-> EmptyDoc,
                                  written |-> 0]]
    /\ ops = Idle

(* an operation has computed the document it saves and opens the file *)
SaveOpen(op, name, r) ==
    /\ pc[Saver] = "idle"
    /\ r.ok
    /\ doc' = Truncated(<< >>)
    /\ loc' = [loc EXCEPT ![Saver] = [prev |-> doc, data |-> r.doc,
                                      written |-> 0]]
    /\ pc' = [pc EXCEPT ![Saver] = "writing"]
    /\ last' = Last(op, name, r)
    /\ UNCHANGED <<procs, now, ops>>

FileAdd(name, port) ==
    SaveOpen("add", name, add_process(doc, procs, name, Command, port, None))

FileUpdate(name, port) ==
    SaveOpen("update", name, update_process(doc, procs, name, port, None))

FileRemove(name) ==
    SaveOpen("remove", name, remove_process(doc, procs, name, FALSE))

(* json.dump writes the next piece; after the last one the file is closed *)
SaveWrite ==
    /\ pc[Saver] = "writing"
    /\ LET k == loc[Saver].written + 1
       IN /\ doc' = FileAfter(loc[Saver].data, k)
          /\ loc' = [loc EXCEPT ![Saver].written = k]
          /\ pc' = [pc EXCEPT ![Saver] =
                       IF k = ChunkCount THEN "idle" ELSE "writing"]
    /\ UNCHANGED <<procs, now, last, ops>>

(* the process is killed, or the machine loses power, during the save *)
Crash ==
    /\ pc[Saver] = "writing"
    /\ pc' = [pc EXCEPT ![Saver] = "crashed"]
    /\ UNCHANGED <<doc, procs, now, last, loc, ops>>

FileNext ==
    \/ \E name \in Names, port \in FilePorts : FileAdd(name, port)
    \/ \E name \in Names, port \in FilePorts : FileUpdate(name, port)
    \/ \E name \in Names : FileRemove(name)
    \/ SaveWrite
    \/ Crash

FileSpec == FileInit /\ [][FileNext]_vars

----------------------------------------------------------------------------
(* MergeSpec: the two merging saves.  save_config is called by add_process *)
(* and update_process with the definitions they loaded and changed;        *)
(* save_state is called by start_process and stop_process with the mapping *)
(* load_state returned, whole entries with their command, port and         *)
(* workdir, after they changed the runtime fields of one name.  A          *)
(* definition operation of another caller (the command line while the      *)
(* watcher runs) may fall between the load_state and the save_state.       *)

MergePorts == {None, MinPort, MaxPort}

MergeInit ==
    /\ doc = EmptyDoc
    /\ procs = [p \in Pids |-> DeadProc]
    /\ now = 0
    /\ last = LastEnv
    /\ pc = [c \in {Saver} |-> "idle"]
    /\ loc = [c \in {Saver} |-> [state |-> EmptyDoc]]
    /\ ops = Idle

(* a definition operation that succeeds ends in save_config *)
SaveConfig(name, r) ==
    /\ r.ok
    /\ doc' = r.doc
    /\ last' = Last("save_config", name, r)
    /\ UNCHANGED <<procs, now, pc, loc, ops>>

MergeAdd(name, port) ==
    SaveConfig(name, add_process(doc, procs, name, Command, port, None))

MergeUpdate(name, port) ==
    SaveConfig(name, update_process(doc, procs, name, port, None))

MergeRemove(name) ==
    /\ name \in load_config(doc)
    /\ Apply("remove", name, remove_process(doc, procs, name, FALSE))

(* state = load_state() *)
LoadState ==
    /\ pc[Saver] = "idle"
    /\ loc' = [loc EXCEPT ![Saver].state = load_state(doc)]
    /\ pc' = [pc EXCEPT ![Saver] = "loaded"]
    /\ last' = LastEnv
    /\ UNCHANGED <<doc, procs, now, ops>>

(* the caller changes the runtime record of one name and calls save_state *)
SaveState(name, entry) ==
    /\ pc[Saver] = "loaded"
    /\ doc' = save_state(doc, [loc[Saver].state EXCEPT ![name] = entry])
    /\ pc' = [pc EXCEPT ![Saver] = "idle"]
    /\ last' = [LastEnv EXCEPT !.op = "save_state", !.name = name]
    /\ UNCHANGED <<procs, now, loc, ops>>

(* lines 417-428 of start_process *)
SaveStarted(name, p) ==
    /\ name \in load_config(doc)
    /\ SaveState(name, start_entry(loc[Saver].state[name], p, now, now))

(* lines 462-469 of stop_process *)
SaveStopped(name) ==
    /\ loc[Saver].state[name].kind # "none"
    /\ SaveState(name, stop_entry(loc[Saver].state[name]))

MergeNext ==
    \/ \E name \in Names, port \in MergePorts : MergeAdd(name, port)
    \/ \E name \in Names, port \in MergePorts : MergeUpdate(name, port)
    \/ \E name \in Names : MergeRemove(name)
    \/ LoadState
    \/ \E name \in Names, p \in Pids : SaveStarted(name, p)
    \/ \E name \in Names : SaveStopped(name)

MergeSpec == MergeInit /\ [][MergeNext]_vars

----------------------------------------------------------------------------
(* WaitSpec: the polling loops wait_for_process_death and                  *)
(* wait_for_port_free, one step per test of the loop condition and per     *)
(* sleep.  Time is counted in tenths of a second.  The awaited condition   *)
(* is the death of process Awaited: the pid waited for, or the process     *)
(* that holds the port.  The loops measure the time by adding up the poll  *)
(* intervals; the environment may end the process at any moment, or never. *)

MaxWait == 3
TimeoutsDrawn == 0..MaxWait
PollsDrawn == {0, 1, 2}
Awaited == 1

is_port_free(pr, holder) == ~pr[holder].alive

(* the condition the loop of the function polls *)
Observed(fn, pr) ==
    IF fn = "wait_for_port_free" THEN is_port_free(pr, Awaited)
    ELSE ~is_process_alive(pr, Awaited)

WaitInit ==
    /\ doc = EmptyDoc
    /\ procs \in {[p \in Pids |-> DeadProc],
                  [[p \in Pids |-> DeadProc] EXCEPT ![Awaited].alive = TRUE]}
    /\ now = 0
    /\ last = LastEnv
    /\ pc = [c \in {Saver} |-> "while"]
    /\ loc \in {[c \in {Saver} |->
                    [fn |-> fn, timeout_seconds |-> t, poll_interval |-> i,
                     elapsed |-> 0, result |-> FALSE]] :
                 fn \in {"wait_for_process_death", "wait_for_port_free"},
                 t \in TimeoutsDrawn, i \in PollsDrawn}
    /\ ops = Idle

(* while elapsed < timeout_seconds: if <condition>: return True *)
WaitTest ==
    /\ pc[Saver] = "while"
    /\ LET w == loc[Saver]
       IN IF w.elapsed < w.timeout_seconds
          THEN IF Observed(w.fn, procs)
               THEN /\ loc' = [loc EXCEPT ![Saver].result = TRUE]
                    /\ pc' = [pc EXCEPT ![Saver] = "returned"]
               ELSE /\ pc' = [pc EXCEPT ![Saver] = "sleep"]
                    /\ loc' = loc
          ELSE /\ loc' = [loc EXCEPT ![Saver].result = FALSE]
               /\ pc' = [pc EXCEPT ![Saver] = "returned"]
    /\ UNCHANGED <<doc, procs, now, last, ops>>

(* time.sleep(poll_interval); elapsed += poll_interval *)
WaitSleep ==
    /\ pc[Saver] = "sleep"
    /\ loc' = [loc EXCEPT ![Saver].elapsed = @ + loc[Saver].poll_interval]
    /\ pc' = [pc EXCEPT ![Saver] = "while"]
    /\ UNCHANGED <<doc, procs, now, last, ops>>

WaitNext ==
    \/ WaitTest
    \/ WaitSleep
    \/ \E p \in Pids : Die(p)

WaitSpec == WaitInit /\ [][WaitNext]_vars

(* the caller's thread keeps running; nothing makes the process die *)
FairWaitSpec == WaitSpec /\ WF_vars(WaitTest) /\ WF_vars(WaitSleep)

----------------------------------------------------------------------------
(* LogSpec: the log directory.  A file name is the sequence of its stem    *)
(* and the counters appended to it: <<"a">> is a.log, <<"a", 1>> is        *)
(* a_1.log, <<"a", 1, 1>> is a_1_1.log.  A directory is a set of files     *)
(* [name, content]; the content tells where the file came from, so that a  *)
(* file that is overwritten or deleted is missed.  In LogSpec loc is the   *)
(* log directory:                                                          *)
(*   root    the flat files of output/logs                                 *)
(*   legacy  whether the directory output/logs/_legacy exists              *)
(*   old     the files of the archive output/logs/old                      *)
(*   marker  whether output/logs/.migrated exists                          *)
(*   logs    the log files output/logs/<name>/<year>/<month>/...           *)
(*   calls   the get_new_log_path calls made so far, with their results    *)

MaxLogs == 3

FileNames(dir) == {f.name : f \in dir}

(* faulty variant: the path is returned without looking for it *)
unique_path_unchecked(names, path) == path

(* a path that is not in the directory: the path itself, or the first      *)
(* <stem>_<counter><suffix> that is free                                   *)
_ensure_unique_path(names, path) ==
    IF path \notin names THEN path
    ELSE Append(path, CHOOSE counter \in 1..(Cardinality(names) + 1) :
                        /\ Append(path, counter) \notin names
                        /\ \A c \in 1..(counter - 1) :
                              Append(path, c) \in names)

(* shutil.move of one file into the archive, under a name that is free *)
move_to_old(old, f) ==
    old \cup {[name |-> _ensure_unique_path(FileNames(old), f.name),
               content |-> f.content]}

(* the loop over legacy_files, in the order iterdir yields them *)
RECURSIVE move_all(_, _, _)
move_all(old, root, order) ==
    IF order = << >> THEN old
    ELSE LET f == CHOOSE f \in root : f.name = Head(order)
         IN move_all(move_to_old(old, f), root, Tail(order))

LegacyDir == [name |-> <<"_legacy">>, content |-> <<"dir", "_legacy">>]

(* faulty variant: runs again although the marker exists *)
migrate_legacy_logs_unguarded(fs, order) ==
    LET old1 == move_all(fs.old, fs.root, order)
    IN [fs EXCEPT !.root = {},
                  !.old = IF fs.legacy THEN move_to_old(old1, LegacyDir)
                          ELSE old1,
                  !.legacy = FALSE,
                  !.marker = TRUE]

(* migrate_legacy_logs(); order: the flat files as iterdir yields them *)
migrate_legacy_logs(fs, order) ==
    IF fs.marker THEN fs
    ELSE LET old1 == move_all(fs.old, fs.root, order)
         IN [fs EXCEPT !.root = {},
                       !.old = IF fs.legacy THEN move_to_old(old1, LegacyDir)
                               ELSE old1,
                       !.legacy = FALSE,
                       !.marker = TRUE]

(* the file name <name>_<timestamp>.log of a log started at second t *)
LogName(name, t) == <<name, t>>

(* get_new_log_path(name) at second t, and the open(log_path, "w") that    *)
(* follows it in start_process                                             *)
get_new_log_path(fs, name, t, order) ==
    LET fs1 == migrate_legacy_logs(fs, order)
        path == _ensure_unique_path(fs1.logs, LogName(name, t))
    IN [fs1 EXCEPT !.logs = @ \cup {path},
                   !.calls = Append(@, [name |-> name, t |-> t,
                                        path |-> path])]

FlatNames == {<<"a">>, <<"a", 1>>}

Flat(stem, origin) == [name |-> stem, content |-> <<origin, stem>>]

(* the flat files that there are at the start *)
FlatsAt(origin, stems) == {Flat(n, origin) : n \in stems}

(* the orders in which iterdir may yield the flat files *)
Orders(root) ==
    {order \in UNION {[1..n -> FileNames(root)] : n \in {Cardinality(root)}} :
        \A i, j \in DOMAIN order : i # j => order[i] # order[j]}

LogInit ==
    /\ doc = EmptyDoc
    /\ procs = [p \in Pids |-> DeadProc]
    /\ now = 0
    /\ last = LastEnv
    /\ pc = Idle
    /\ loc \in {[root |-> FlatsAt("root", r),
                  legacy |-> l,
                  old |-> FlatsAt("old", o),
                  marker |-> FALSE,
                  logs |-> {},
                  calls |-> << >>] :
                 r \in SUBSET FlatNames, l \in BOOLEAN,
                 o \in SUBSET {<<"a">>}}
    /\ ops = Idle

Migrate(order) ==
    /\ order \in Orders(loc.root)
    /\ loc' = migrate_legacy_logs(loc, order)
    /\ last' = [LastEnv EXCEPT !.op = "migrate"]
    /\ UNCHANGED <<doc, procs, now, pc, ops>>

(* lines 395-398 of start_process *)
NewLog(name, order) ==
    /\ Len(loc.calls) < MaxLogs
    /\ order \in Orders(loc.root)
    /\ loc' = get_new_log_path(loc, name, now, order)
    /\ last' = [LastEnv EXCEPT !.op = "log", !.name = name]
    /\ UNCHANGED <<doc, procs, now, pc, ops>>

(* something else writes a flat file into the log root *)
DropFlat(stem) ==
    /\ stem \notin FileNames(loc.root)
    /\ loc' = [loc EXCEPT !.root = @ \cup {Flat(stem, "later")}]
    /\ last' = LastEnv
    /\ UNCHANGED <<doc, procs, now, pc, ops>>

LogNext ==
    \/ Tick
    \/ \E order \in Orders(loc.root) : Migrate(order)
    \/ \E name \in Names, order \in Orders(loc.root) : NewLog(name, order)
    \/ \E stem \in FlatNames : DropFlat(stem)

LogSpec == LogInit /\ [][LogNext]_vars

----------------------------------------------------------------------------
(* ConcSpec: two callers (an interactive command, a watch tick) run their  *)
(* operations at the same time.  Nothing in daemon_manager.py locks the    *)
(* state file, so a step of one caller may come between any load and save  *)
(* of the other.  A step is one read or one write of the document together *)
(* with the local work that follows it.                                    *)

Callers == {"c1", "c2"}

IdleLoc ==
    [op |-> "", name |-> "", pid |-> None, start_time |-> None,
     state |-> EmptyDoc, config |-> {}, i |-> 0]

NoOp == [op |-> "", name |-> "", ok |-> TRUE]

(* both names defined by add_process, nothing started yet *)
ConcInit ==
    /\ doc = [n \in Names |-> [DictEntry EXCEPT !.command = Command,
                                                !.workdir = 1]]
    /\ procs = [p \in Pids |-> DeadProc]
    /\ now = 0
    /\ last = [c \in Callers |-> NoOp]
    /\ pc = [c \in Callers |-> "idle"]
    /\ loc = [c \in Callers |-> IdleLoc]
    /\ ops = [c \in Callers |-> 0]

(* the caller's operation returns or raises *)
Finish(c, op, name, ok) ==
    /\ pc' = [pc EXCEPT ![c] = "idle"]
    /\ loc' = [loc EXCEPT ![c] = IdleLoc]
    /\ last' = [last EXCEPT ![c] = [op |-> op, name |-> name, ok |-> ok]]

Goto(c, label, l) ==
    /\ pc' = [pc EXCEPT ![c] = label]
    /\ loc' = [loc EXCEPT ![c] = l]
    /\ UNCHANGED last

(* the caller begins an operation if it is idle, and otherwise goes on *)
Begin(c) ==
    IF pc[c] = "idle"
    THEN ops[c] < MaxOps /\ ops' = [ops EXCEPT ![c] = @ + 1]
    ELSE UNCHANGED ops

(* stop_process(name): lines 450-460, the status probe and the signal *)
CStopSignal(c, name) ==
    /\ pc[c] = "idle"
    /\ Begin(c)
    /\ LET pid == get_process_status(doc, procs, name)
       IN IF pid = None
          THEN /\ Finish(c, "stop", name, FALSE)
               /\ UNCHANGED <<doc, procs, now>>
          ELSE /\ procs' = killpg(procs, pid)
               /\ Goto(c, "stop_load", [IdleLoc EXCEPT !.op = "stop",
                                                       !.name = name])
               /\ UNCHANGED <<doc, now>>

(* line 464: state = load_state() *)
CStopLoad(c) ==
    /\ pc[c] = "stop_load"
    /\ Begin(c)
    /\ Goto(c, "stop_save", [loc[c] EXCEPT !.state = doc])
    /\ UNCHANGED <<doc, procs, now>>

(* lines 465-470: set the flag in the loaded mapping, save_state(state) *)
CStopSave(c) ==
    /\ pc[c] = "stop_save"
    /\ Begin(c)
    /\ LET name == loc[c].name
           state == loc[c].state
       IN doc' = IF state[name].kind = "none" THEN doc
                 ELSE save_state(doc, [state EXCEPT ![name] = stop_entry(@)])
    /\ Finish(c, "stop", loc[c].name, TRUE)
    /\ UNCHANGED <<procs, now>>

(* start_process(name): lines 383-413, the checks, the spawn and the query *)
(* of the child's start time                                               *)
CSpawn(c, name, p) ==
    /\ pc[c] \in {"idle", "watch_start"}
    /\ pc[c] = "watch_start" => name = loc[c].name
    /\ Begin(c)
    /\ p \in FreePids(procs)
    /\ LET op == IF pc[c] = "idle" THEN "start" ELSE "watch"
       IN IF name \notin load_config(doc)
             \/ get_process_status(doc, procs, name) # None
          THEN /\ IF op = "start"
                  THEN Finish(c, "start", name, FALSE)
                  ELSE Goto(c, "watch_check", [loc[c] EXCEPT !.i = @ + 1])
               /\ UNCHANGED <<doc, procs, now>>
          ELSE /\ procs' = Popen(procs, p, name, now)
               /\ Goto(c, "start_load",
                       [loc[c] EXCEPT !.op = op, !.name = name, !.pid = p,
                                      !.start_time = now])
               /\ UNCHANGED <<doc, now>>

(* line 416: state = load_state() *)
CStartLoad(c) ==
    /\ pc[c] = "start_load"
    /\ Begin(c)
    /\ Goto(c, "start_save", [loc[c] EXCEPT !.state = doc])
    /\ UNCHANGED <<doc, procs, now>>

(* lines 417-428: build the record, save_state(state) *)
CStartSave(c) ==
    /\ pc[c] = "start_save"
    /\ Begin(c)
    /\ LET name == loc[c].name
           state == loc[c].state
       IN doc' = save_state(doc,
                    [state EXCEPT ![name] =
                        start_entry(state[name], loc[c].pid,
                                    loc[c].start_time, loc[c].start_time)])
    /\ IF loc[c].op = "start"
       THEN Finish(c, "start", loc[c].name, TRUE)
       ELSE Goto(c, "watch_check",
                 [loc[c] EXCEPT !.i = @ + 1, !.state = EmptyDoc,
                                !.pid = None, !.start_time = None])
    /\ UNCHANGED <<procs, now>>

(* watch_and_restart_processes: line 667, config = load_config() *)
CWatchBegin(c) ==
    /\ pc[c] = "idle"
    /\ Begin(c)
    /\ Goto(c, "watch_check", [IdleLoc EXCEPT !.op = "watch",
                                              !.config = load_config(doc),
                                              !.i = 1])
    /\ UNCHANGED <<doc, procs, now>>

(* lines 668-670: the next name of the loop and should_restart_process *)
CWatchCheck(c) ==
    /\ pc[c] = "watch_check"
    /\ Begin(c)
    /\ IF loc[c].i > Len(NameSeq)
       THEN Finish(c, "watch", "", TRUE)
       ELSE LET name == NameSeq[loc[c].i]
            IN IF name \in loc[c].config
                  /\ should_restart_process(doc, procs, now, name)
               THEN Goto(c, "inc_load", [loc[c] EXCEPT !.name = name])
               ELSE Goto(c, "watch_check", [loc[c] EXCEPT !.i = @ + 1])
    /\ UNCHANGED <<doc, procs, now>>

(* increment_restart_attempt: line 620, state = load_state() *)
CIncLoad(c) ==
    /\ pc[c] = "inc_load"
    /\ Begin(c)
    /\ Goto(c, "inc_save", [loc[c] EXCEPT !.state = doc])
    /\ UNCHANGED <<doc, procs, now>>

(* lines 621-631: count the attempt in the loaded mapping, save_state *)
CIncSave(c) ==
    /\ pc[c] = "inc_save"
    /\ Begin(c)
    /\ LET name == loc[c].name
           state == loc[c].state
       IN doc' = save_state(doc, [state EXCEPT ![name] = increment_entry(@, now)])
    /\ Goto(c, "watch_start", [loc[c] EXCEPT !.state = EmptyDoc])
    /\ UNCHANGED <<procs, now>>

(* a process that was sent SIGTERM exits *)
CDie(p) ==
    /\ procs[p].alive
    /\ procs[p].signaled
    /\ procs' = [procs EXCEPT ![p] = DeadProc]
    /\ UNCHANGED <<doc, now, last, pc, loc, ops>>

ConcNext ==
    \/ \E c \in Callers, n \in Names : CStopSignal(c, n)
    \/ \E c \in Callers : CStopLoad(c)
    \/ \E c \in Callers : CStopSave(c)
    \/ \E c \in Callers, n \in Names, p \in Pids : CSpawn(c, n, p)
    \/ \E c \in Callers : CStartLoad(c)
    \/ \E c \in Callers : CStartSave(c)
    \/ \E c \in Callers : CWatchBegin(c)
    \/ \E c \in Callers : CWatchCheck(c)
    \/ \E c \in Callers : CIncLoad(c)
    \/ \E c \in Callers : CIncSave(c)
    \/ \E p \in Pids : CDie(p)

ConcSpec == ConcInit /\ [][ConcNext]_vars

(* RemoveSpec: ConcSpec with remove_process among the operations.          *)

(* remove_process(name): lines 548-555, the config check, the status probe *)
(* and, for a running name, the signal of stop_process(name)               *)
CRemoveBegin(c, name) ==
    /\ pc[c] = "idle"
    /\ Begin(c)
    /\ IF name \notin load_config(doc)
       THEN /\ Finish(c, "remove", name, FALSE)
            /\ UNCHANGED <<doc, procs, now>>
       ELSE LET pid == get_process_status(doc, procs, name)
                l == [IdleLoc EXCEPT !.op = "remove", !.name = name]
            IN IF pid = None
               THEN /\ Goto(c, "remove_load", l)
                    /\ UNCHANGED <<doc, procs, now>>
               ELSE /\ procs' = killpg(procs, pid)
                    /\ Goto(c, "remove_stop_load", l)
                    /\ UNCHANGED <<doc, now>>

(* stop_process inside remove_process, line 464: state = load_state() *)
CRemoveStopLoad(c) ==
    /\ pc[c] = "remove_stop_load"
    /\ Begin(c)
    /\ Goto(c, "remove_stop_save", [loc[c] EXCEPT !.state = doc])
    /\ UNCHANGED <<doc, procs, now>>

(* stop_process inside remove_process, lines 465-470 *)
CRemoveStopSave(c) ==
    /\ pc[c] = "remove_stop_save"
    /\ Begin(c)
    /\ LET name == loc[c].name
           state == loc[c].state
       IN doc' = IF state[name].kind = "none" THEN doc
                 ELSE save_state(doc, [state EXCEPT ![name] = stop_entry(@)])
    /\ Goto(c, "remove_load", [loc[c] EXCEPT !.state = EmptyDoc])
    /\ UNCHANGED <<procs, now>>

(* line 558: state_data = _load_state_file() *)
CRemoveLoad(c) ==
    /\ pc[c] = "remove_load"
    /\ Begin(c)
    /\ Goto(c, "remove_save", [loc[c] EXCEPT !.state = doc])
    /\ UNCHANGED <<doc, procs, now>>

(* lines 559-561: del state_data["processes"][name]; _save_state_file *)
CRemoveSave(c) ==
    /\ pc[c] = "remove_save"
    /\ Begin(c)
    /\ LET name == loc[c].name
           state_data == loc[c].state
       IN doc' = IF state_data[name].kind = "none" THEN doc
                 ELSE [state_data EXCEPT ![name] = NoEntry]
    /\ Finish(c, "remove", loc[c].name, TRUE)
    /\ UNCHANGED <<procs, now>>

RemoveNext ==
    \/ ConcNext
    \/ \E c \in Callers, n \in Names : CRemoveBegin(c, n)
    \/ \E c \in Callers : CRemoveStopLoad(c)
    \/ \E c \in Callers : CRemoveStopSave(c)
    \/ \E c \in Callers : CRemoveLoad(c)
    \/ \E c \in Callers : CRemoveSave(c)

RemoveSpec == ConcInit /\ [][RemoveNext]_vars

----------------------------------------------------------------------------
(* SweepSpec: the watch sweeps over two definitions while the clock        *)
(* advances, processes end, and the callers start and stop "web" by hand.  *)
(* No definition is added or removed.  loc keeps, for each name, the time  *)
(* and the restart_attempt the latest sweep that restarted it left.        *)

NoRestart == [t |-> None, k |-> 0]

SweepInit ==
    /\ doc = add_process(add_process(EmptyDoc, [p \in Pids |-> DeadProc],
                                     "web", Command, None, Cwd).doc,
                         [p \in Pids |-> DeadProc],
                         "db", Command, None, Cwd).doc
    /\ procs = [p \in Pids |-> DeadProc]
    /\ now = 0
    /\ last = LastEnv
    /\ pc = Idle
    /\ loc = [n \in Names |-> NoRestart]
    /\ ops = Idle

TimedSweep(outcome) ==
    /\ SweepStep(outcome)
    /\ loc' = [n \in Names |->
                 IF n \in last'.attempted
                 THEN [t |-> now, k |-> doc'[n].restart_attempt]
                 ELSE loc[n]]
    /\ UNCHANGED <<now, pc, ops>>

SweepNext ==
    \/ Tick
    \/ \E p \in Pids : Die(p)
    \/ \E n \in SpecNames, p \in Pids \cup {None} : Start(n, p)
    \/ \E n \in SpecNames, m \in BOOLEAN, gone \in BOOLEAN : Stop(n, m, gone)
    \/ \E outcome \in [Names -> Pids \cup {None}] : TimedSweep(outcome)

SweepSpec == SweepInit /\ [][SweepNext]_vars

----------------------------------------------------------------------------
(* SignalSpec: Spec with shutdown_all_processes among the operations: the  *)
(* clock advances and unrelated processes take recorded pids while the     *)
(* callers stop, shut down and remove.                                     *)

SignalNext ==
    \/ Next
    \/ \E fate \in [Names -> Fates] : Shutdown(fate)

SignalSpec == Init /\ [][SignalNext]_vars

(* AttemptSpec: SignalSpec with update_process among the operations.       *)

AttemptNext ==
    \/ SignalNext
    \/ \E n \in SpecNames, port \in {None, MinPort} : DefUpdate(n, port, 2)

AttemptSpec == Init /\ [][AttemptNext]_vars

----------------------------------------------------------------------------
(* StartAllSpec: AdminSpec with start_all_processes among the operations.  *)

(* the definitions start_all_processes finds not running *)
Absent(d, pr) == {n \in load_config(d) : get_process_status(d, pr, n) = None}

StartAll(outcome) ==
    /\ \A n \in Names \ Absent(doc, procs) : outcome[n] = None
    /\ \A n \in Absent(doc, procs) : outcome[n] \in FreshPids(n) \cup {None}
    /\ \A n, m \in Absent(doc, procs) :
          n # m /\ outcome[n] # None => outcome[n] # outcome[m]
    /\ \E r \in {start_all_processes(doc, procs, now, outcome)} :
          /\ doc' = r.doc
          /\ procs' = r.procs
          /\ last' = [LastEnv EXCEPT !.op = "start_all",
                                     !.logs = Cardinality(r.attempted),
                                     !.attempted = r.attempted,
                                     !.started = r.started,
                                     !.refused =
                                        {n \in Absent(doc, procs) :
                                            outcome[n] = None}]
    /\ UNCHANGED <<now, pc, loc, ops>>

StartAllNext ==
    \/ AdminNext
    \/ \E outcome \in [Names -> Pids \cup {None}] : StartAll(outcome)

StartAllSpec == AdminInit /\ [][StartAllNext]_vars

----------------------------------------------------------------------------
(* The claims *)

Flagged(n) == doc[n].kind = "dict" /\ doc[n].explicitly_stopped

Elapsed(n) == now - doc[n].last_restart_time

(* the flag is set by a successful explicit stop and gates the policy *)
C1_FlagHolds ==
    \A n \in Names :
        /\ last.op = "stop" /\ last.name = n /\ last.ok => Flagged(n)
        /\ Flagged(n) => ~should_restart_process(doc, procs, now, n)

(* the flag keeps sweeps away and falls only to a start or a removal *)
C1_FlagStep ==
    \A n \in Names :
        Flagged(n) =>
            /\ last'.op = "watch" => n \notin last'.attempted
            /\ Flagged(n)' \/ (/\ last'.op \in {"start", "remove"}
                                /\ last'.name = n
                                /\ last'.ok)

(* C1, as amended: a successful stop_process(name) with mark_explicit=True *)
(* leaves explicitly_stopped true; while the flag is true                  *)
(* should_restart_process(name) is false, whatever the process and the     *)
(* clock do, and no watch sweep attempts the name; and the flag stays true *)
(* until a successful start_process(name) or remove_process(name).         *)
C1_StoppedUntilStartOrRemove == []C1_FlagHolds /\ [][C1_FlagStep]_vars

(* C1 as stated: from a state where the name is explicitly stopped, every  *)
(* step other than a successful start_process(name) leads to a state where *)
(* should_restart_process(name) is still false.                            *)
C1_StoppedUntilStart ==
    [][\A n \in Names :
         Flagged(n) =>
            \/ ~should_restart_process(doc', procs', now', n)
            \/ (last'.op = "start" /\ last'.name = n /\ last'.ok)]_vars

(* a sweep has just passed over an explicitly stopped name whose process   *)
(* is dead and whose backoff has elapsed                                   *)
C1_Witness ==
    /\ last.op = "watch"
    /\ Flagged("web")
    /\ get_process_status(doc, procs, "web") = None
    /\ doc["web"].pid # None /\ ~is_process_alive(procs, doc["web"].pid)
    /\ doc["web"].last_restart_time # None
    /\ Elapsed("web") >= CappedPow2(doc["web"].restart_attempt)

(* a sweep has just had the spawn of the name refused by the system *)
SpawnFailed(n) == last.op = "watch" /\ n \in last.refused

Restartable(n) ==
    /\ n \in load_config(doc)
    /\ ~Flagged(n)
    /\ get_process_status(doc, procs, n) = None

BeyondClock(n) ==
    /\ doc[n].last_restart_time # None
    /\ doc[n].last_restart_time + CappedPow2(doc[n].restart_attempt) > MaxTime

(* C2: under FairSpec, a defined name whose process is dead, whose record  *)
(* is not explicitly stopped and whose backoff ends within the clock of    *)
(* the model is eventually running again (get_process_status returns a     *)
(* pid), unless it is stopped explicitly, its definition is removed, no    *)
(* pid is free for the spawn, or the spawn of a sweep fails.               *)
C2_EventuallyRestarted ==
    \A n \in SpecNames :
        (Restartable(n) /\ ~BeyondClock(n)) ~>
            \/ get_process_status(doc, procs, n) # None
            \/ n \notin load_config(doc)
            \/ Flagged(n)
            \/ FreePids(procs) = {}
            \/ SpawnFailed(n)

(* a sweep has just restarted the name after its backoff *)
C2_Witness ==
    /\ last.op = "watch"
    /\ "web" \in last.started
    /\ doc["web"].restart_attempt = 2
    /\ get_process_status(doc, procs, "web") # None

(* C3: for a record that is not explicitly stopped and not running,        *)
(* should_restart_process is true when no last_restart_time is recorded,   *)
(* and otherwise exactly when now - last_restart_time >= min(2^attempt,    *)
(* 7200).                                                                  *)
C3_BackoffGate ==
    last.op = "should_restart"
    /\ ~Flagged(last.name)
    /\ get_process_status(doc, procs, last.name) = None
    => IF doc[last.name].kind # "dict"
          \/ doc[last.name].last_restart_time = None
       THEN last.ok
       ELSE last.ok <=> (Elapsed(last.name)
                           >= CappedPow2(doc[last.name].restart_attempt))

(* the policy answered yes exactly at the capped backoff *)
C3_Witness ==
    /\ last.op = "should_restart"
    /\ last.ok
    /\ doc["web"].kind = "dict"
    /\ doc["web"].restart_attempt = 100
    /\ doc["web"].last_restart_time = 1
    /\ now = 7201

(* C4: get_restart_backoff_seconds is min(2^restart_attempt, 7200): 1, 2,  *)
(* 32 and 7200 for 0, 1, 5 and 100 attempts, never above 7200, and an      *)
(* increment of the attempt count never lowers it.                         *)
C4_Backoff ==
    /\ last.op \in {"backoff", "increment"} =>
          /\ last.pid = CappedPow2(doc[last.name].restart_attempt)
          /\ last.pid <= 7200
          /\ doc[last.name].restart_attempt = 0 => last.pid = 1
          /\ doc[last.name].restart_attempt = 1 => last.pid = 2
          /\ doc[last.name].restart_attempt = 5 => last.pid = 32
          /\ doc[last.name].restart_attempt = 100 => last.pid = 7200
    /\ last.op = "increment" =>
          last.pid >= CappedPow2(doc[last.name].restart_attempt - 1)

(* the backoff of 100 attempts was computed *)
C4_Witness ==
    /\ last.op = "backoff"
    /\ doc["web"].kind = "dict"
    /\ doc["web"].restart_attempt = 100
    /\ last.pid = 7200

(* what one sweep does to each name *)
C5_SweepStep ==
    last'.op = "watch" =>
        \A n \in Names :
            IF n \in Eligible(doc, procs, now)
            THEN /\ n \in last'.attempted
                 /\ doc'[n].restart_attempt = doc[n].restart_attempt + 1
                 /\ doc'[n].last_restart_time = now
                 /\ (doc[n].restart_attempt = 0
                       /\ doc[n].last_restart_time = None)
                        => doc'[n].restart_attempt = 1
                 /\ n \in last'.started =>
                        /\ get_process_status(doc', procs', n) # None
                        /\ ~is_process_alive(procs,
                                get_process_status(doc', procs', n))
            ELSE /\ n \notin last'.attempted
                 /\ doc'[n] = doc[n]

(* C5: a sweep counts one more attempt and stamps now for every name it    *)
(* finds eligible, also when the spawn then fails; the name whose spawn    *)
(* succeeds is running when the sweep returns; a name with no attempt and  *)
(* no last restart time ends with restart_attempt = 1; every other entry   *)
(* is left as it was.                                                      *)
C5_SweepCountsOneAttempt == [][C5_SweepStep]_vars

(* the sweep has restarted a name that had no attempt counted *)
C5_Witness ==
    /\ last.op = "watch"
    /\ "web" \in last.started
    /\ doc["web"].restart_attempt = 1
    /\ doc["web"].last_restart_time = now
    /\ get_process_status(doc, procs, "web") # None

(* the record names a live process by pid and by start time *)
Verified(n) ==
    /\ doc[n].kind = "dict"
    /\ doc[n].pid \in Pids
    /\ doc[n].start_time # None
    /\ procs[doc[n].pid].alive
    /\ procs[doc[n].pid].stime = doc[n].start_time

(* C6: get_process_status(name) is the recorded pid exactly when the entry *)
(* is a dict with a start_time, the pid is alive and the live process      *)
(* started at the recorded start_time; in every other case (a bare-int     *)
(* entry, no start_time, a reused pid) it is None.                         *)
C6_StatusIffVerified ==
    \A n \in Names :
        get_process_status(doc, procs, n)
            = IF Verified(n) THEN doc[n].pid ELSE None

(* the recorded pid is alive again, reused by a process that started at   *)
(* another time than the recorded one, and the status is None              *)
C6_Witness ==
    /\ doc["web"].kind = "dict"
    /\ doc["web"].pid \in Pids
    /\ procs[doc["web"].pid].alive
    /\ doc["web"].start_time # None
    /\ procs[doc["web"].pid].stime # doc["web"].start_time
    /\ get_process_status(doc, procs, "web") = None

(* C7: after a successful start_process(name) the returned pid is alive    *)
(* and get_process_status(name) returns it.                                *)
C7_StartedIsTracked ==
    last.op = "start" /\ last.ok =>
        /\ is_process_alive(procs, last.pid)
        /\ get_process_status(doc, procs, last.name) = last.pid

(* a start has succeeded over a stale record of another pid *)
C7_Witness ==
    /\ last.op = "start"
    /\ last.ok
    /\ last.pid = 2
    /\ procs[1].alive

(* ---- concurrent callers (ConcSpec) ---- *)

SavePcs == {"stop_save", "start_save", "inc_save"}

(* the mutation the caller at a save step makes to a mapping *)
Mutation(c, state) ==
    LET name == loc[c].name
    IN [state EXCEPT ![name] =
          IF pc[c] = "stop_save" THEN stop_entry(@)
          ELSE IF pc[c] = "inc_save" THEN increment_entry(@, now)
          ELSE start_entry(@, loc[c].pid, loc[c].start_time,
                           loc[c].start_time)]

(* C8: every save of a load-mutate-save cycle writes the caller's mutation *)
(* applied to the document as it is at the save, so that nothing another   *)
(* caller saved since the load is overwritten by a stale copy.             *)
C8_NoLostUpdate ==
    [][\A c \in Callers :
          pc[c] \in SavePcs /\ pc'[c] # pc[c]
              => doc' = save_state(doc, Mutation(c, doc))]_vars

(* C9: when a caller's last operation is a successful explicit             *)
(* stop_process(name) and the only operation of the other caller was a     *)
(* watch sweep, which has finished, the record of the name is explicitly   *)
(* stopped and no process of the name is running or tracked as running,    *)
(* other than one that was sent SIGTERM and has yet to exit.               *)
C9_StopWinsOverSweep ==
    \A c1, c2 \in Callers, n \in Names :
        /\ c1 # c2
        /\ pc[c1] = "idle" /\ pc[c2] = "idle"
        /\ last[c1] = [op |-> "stop", name |-> n, ok |-> TRUE]
        /\ last[c2].op = "watch" /\ ops[c2] = 1
        => /\ \A p \in Pids :
                 /\ procs[p].alive /\ procs[p].owner = n => procs[p].signaled
                 /\ get_process_status(doc, procs, n) = p => procs[p].signaled
           /\ Flagged(n)

(* the caller is inside watch_and_restart_processes *)
InSweep(c) == pc[c] # "idle" /\ loc[c].op = "watch"

(* C10: no two callers are inside watch_and_restart_processes at once, and *)
(* no two sweeps have each spawned a process for the same name.            *)
C10_SweepsNeverOverlap ==
    \A c1, c2 \in Callers :
        c1 # c2 =>
            /\ ~(InSweep(c1) /\ InSweep(c2))
            /\ ~(/\ loc[c1].op = "watch" /\ loc[c2].op = "watch"
                  /\ loc[c1].pid # None /\ loc[c2].pid # None
                  /\ loc[c1].name = loc[c2].name)

(* ---- operations over all names (AdminSpec) ---- *)

(* once the recorded process of the name is dead and the backoff counted   *)
(* from its last restart is over, should_restart_process(name) is true     *)
EligibleLater(d, pr, n) ==
    LET dead == IF d[n].pid \in Pids
                THEN [pr EXCEPT ![d[n].pid] = DeadProc] ELSE pr
        later == IF get_last_restart_time(d, n) = None THEN now
                 ELSE get_last_restart_time(d, n)
                        + get_restart_backoff_seconds(d, n)
    IN should_restart_process(d, dead, later, n)

(* C11, as amended: shutdown_all_processes leaves the document, and so     *)
(* every explicitly_stopped flag, as it was; each process it stopped was   *)
(* sent the signal, and the name of each whose flag was not already set    *)
(* is eligible for a restart by a later sweep, once the process is dead    *)
(* and the backoff has elapsed.                                            *)
C11_ShutdownKeepsFlags ==
    [][last'.op = "shutdown" =>
          /\ doc' = doc
          /\ \A n \in Names : Flagged(n)' = Flagged(n)
          /\ \A n \in last'.attempted :
                /\ ~procs'[doc[n].pid].alive \/ procs'[doc[n].pid].signaled
                /\ ~Flagged(n) => EligibleLater(doc', procs', n)]_vars

(* C11 as stated: the flags are as before, and every process the shutdown  *)
(* stopped is eligible for a restart by a later sweep.                     *)
C11_ShutdownLeavesEligible ==
    [][last'.op = "shutdown" =>
          /\ \A n \in Names : Flagged(n)' = Flagged(n)
          /\ \A n \in last'.attempted : EligibleLater(doc', procs', n)]_vars

(* a shutdown has stopped both processes; web's is dead and web, not       *)
(* flagged, is eligible now                                                *)
C11_Witness ==
    /\ last.op = "shutdown"
    /\ last.attempted = {"web", "db"}
    /\ ~Flagged("web")
    /\ ~is_process_alive(procs, doc["web"].pid)
    /\ should_restart_process(doc, procs, now, "web")

(* ---- failures inside the sweep ---- *)

(* C12: a name whose start fails in a sweep keeps the attempt counted and  *)
(* the time stamped by that sweep and is not eligible right after it; and  *)
(* a sweep attempts a name with a last_restart_time only when the backoff  *)
(* of its count, min(2^restart_attempt, 7200), has elapsed since then,     *)
(* which after the failure is the backoff of the larger count.             *)
C12_FailedStartKeepsCount ==
    [][last'.op = "watch" =>
          \A n \in Names :
             /\ n \in last'.attempted \ last'.started =>
                   /\ doc'[n].restart_attempt = doc[n].restart_attempt + 1
                   /\ doc'[n].last_restart_time = now
                   /\ get_process_status(doc', procs', n) = None
                   /\ ~should_restart_process(doc', procs', now, n)
                   /\ CappedPow2(doc'[n].restart_attempt)
                         >= 2 * CappedPow2(doc[n].restart_attempt)
             /\ n \in last'.attempted /\ doc[n].last_restart_time # None =>
                   now - doc[n].last_restart_time
                      >= CappedPow2(doc[n].restart_attempt)]_vars

(* the start of a sweep has failed a second time, after the backoff of     *)
(* the first failure                                                       *)
C12_Witness ==
    /\ last.op = "watch"
    /\ "web" \in last.attempted \ last.started
    /\ doc["web"].restart_attempt = 2
    /\ doc["web"].pid = None
    /\ doc["web"].last_restart_time = now

(* C13: in one sweep every defined name that is eligible is attempted, and *)
(* is running after the sweep when its own spawn succeeds, whether or not  *)
(* the start of another name failed in that sweep; the names that are not  *)
(* eligible are left as they were.                                         *)
C13_FailureDoesNotAbortSweep ==
    [][last'.op = "watch" =>
          \A n \in Names :
             IF n \in Eligible(doc, procs, now)
             THEN /\ n \in last'.attempted
                  /\ doc'[n].restart_attempt = doc[n].restart_attempt + 1
                  /\ n \notin last'.refused =>
                        /\ n \in last'.started
                        /\ get_process_status(doc', procs', n) # None
             ELSE /\ n \notin last'.attempted
                  /\ doc'[n] = doc[n]]_vars

(* the start of web, the first name of the sweep, has failed and db, the   *)
(* second, was started by the same sweep                                   *)
C13_Witness ==
    /\ last.op = "watch"
    /\ last.refused = {"web"}
    /\ last.attempted = {"web", "db"}
    /\ last.started = {"db"}
    /\ get_process_status(doc, procs, "db") # None
    /\ doc["web"].restart_attempt = 1

(* C14: a name that a sweep has restarted and whose process keeps running  *)
(* eventually has restart_attempt = 0 and no last_restart_time.            *)
C14_EventuallyReset ==
    \A n \in SpecNames :
        (last.op = "watch" /\ n \in last.started) ~>
            \/ get_process_status(doc, procs, n) = None
            \/ /\ doc[n].restart_attempt = 0
               /\ doc[n].last_restart_time = None

(* ---- errors of the operations ---- *)

(* C15: start_process(name) raises the not-found error when the name has   *)
(* no definition and the already-running error when get_process_status     *)
(* returns a pid; in both cases no process is spawned, no log file is      *)
(* created and the document is unchanged.                                  *)
C15_StartErrors ==
    [][last'.op = "start" =>
          /\ last'.name \notin load_config(doc) => last'.err = "not_found"
          /\ (/\ last'.name \in load_config(doc)
              /\ get_process_status(doc, procs, last'.name) # None)
                => last'.err = "already_running"
          /\ last'.err \in {"not_found", "already_running"} =>
                /\ ~last'.ok
                /\ last'.pid = None
                /\ last'.logs = 0
                /\ procs' = procs
                /\ doc' = doc]_vars

(* a start of a running name has been refused *)
C15_Witness ==
    /\ last.op = "start"
    /\ last.err = "already_running"
    /\ get_process_status(doc, procs, "web") # None
    /\ \E p \in Pids : ~procs[p].alive

(* C16: stop_process(name) raises the not-running error when               *)
(* get_process_status is None and the signal-failure error when the signal *)
(* cannot be delivered; in both cases the document, and with it            *)
(* explicitly_stopped, is unchanged, and without a status no process is    *)
(* signalled.                                                              *)
C16_StopErrors ==
    [][last'.op \in {"stop", "stop_unmarked"} =>
          /\ get_process_status(doc, procs, last'.name) = None
                <=> last'.err = "not_running"
          /\ last'.err = "not_running" => procs' = procs
          /\ last'.err = "signal_failed" =>
                \A p \in Pids : procs'[p].alive => procs'[p] = procs[p]
          /\ last'.err \in {"not_running", "signal_failed"} =>
                /\ ~last'.ok
                /\ doc' = doc
                /\ \A n \in Names : Flagged(n)' = Flagged(n)
          /\ last'.err \notin {"not_running", "signal_failed"} => last'.ok]_vars

(* an explicit stop was refused for a name whose recorded pid is alive,    *)
(* reused by another process                                               *)
C16_Witness ==
    /\ last.op = "stop"
    /\ last.err = "not_running"
    /\ ~Flagged("web")
    /\ doc["web"].pid \in Pids
    /\ procs[doc["web"].pid].alive
    /\ ~procs[doc["web"].pid].signaled

(* C17: remove_process(name) raises the not-found error for a name without *)
(* a definition and changes nothing; for a defined name whose process is   *)
(* running it signals the process and deletes the whole entry, definition  *)
(* and runtime record, so that list_processes no longer reports the name.  *)
C17_RemoveDeletes ==
    [][last'.op = "remove" =>
          LET n == last'.name
              pid == get_process_status(doc, procs, n)
          IN /\ n \notin load_config(doc) <=> last'.err = "not_found"
             /\ last'.err = "not_found" =>
                   ~last'.ok /\ doc' = doc /\ procs' = procs
             /\ n \in load_config(doc) /\ pid # None =>
                   /\ last'.ok
                   /\ procs'[pid].signaled
                   /\ doc'[n] = NoEntry
                   /\ n \notin DOMAIN list_processes(doc', procs')]_vars

(* ---- operations on one definition (DefSpec) ---- *)

(* the port and the workdir given to the operation pass its validation *)
ValidArgs(port, workdir) ==
    /\ port = None \/ port \in 1..65535
    /\ workdir # NoSuchDir

(* C18: add_process(name, command) with valid arguments succeeds for every *)
(* name that is not defined, whatever the entry of the name held before,   *)
(* and list_processes then reports the name with the given command and     *)
(* pid None.                                                               *)
C18_AddThenList ==
    [][last'.op = "add" =>
          LET n == last'.name
              listed == list_processes(doc', procs')
          IN /\ (/\ n \notin load_config(doc)
                 /\ ValidArgs(last'.port, last'.workdir)) => last'.ok
             /\ last'.ok =>
                   /\ n \in DOMAIN listed
                   /\ listed[n].command = last'.command
                   /\ listed[n].pid = None
                   /\ listed[n].port = last'.port]_vars

(* the name was added over a legacy entry whose bare pid is alive, and is  *)
(* listed without a pid                                                    *)
C18_Witness ==
    /\ last.op = "add"
    /\ last.ok
    /\ doc["web"].pid \in Pids
    /\ procs[doc["web"].pid].alive
    /\ list_processes(doc, procs)["web"].pid = None
    /\ list_processes(doc, procs)["web"].command = last.command

(* C19: add_process fails when the name is defined, when a port is given   *)
(* outside 1..65535 and when a workdir is given that is no directory, and  *)
(* only then; a failed add leaves the document and the processes as they   *)
(* were.                                                                   *)
C19_AddErrors ==
    [][last'.op = "add" =>
          LET n == last'.name
          IN /\ n \in load_config(doc) => last'.err = "already_exists"
             /\ (/\ last'.port # None
                 /\ last'.port \notin 1..65535) => ~last'.ok
             /\ last'.workdir = NoSuchDir => ~last'.ok
             /\ ~last'.ok =>
                   /\ \/ n \in load_config(doc)
                      \/ ~ValidArgs(last'.port, last'.workdir)
                   /\ last'.err \in {"already_exists", "invalid_port",
                                     "invalid_workdir"}
                   /\ doc' = doc
                   /\ procs' = procs]_vars

(* an add with valid arguments was refused for a defined name whose        *)
(* process is running                                                      *)
C19_Witness ==
    /\ last.op = "add"
    /\ last.err = "already_exists"
    /\ ValidArgs(last.port, last.workdir)
    /\ last.command # doc["web"].command
    /\ get_process_status(doc, procs, "web") # None

(* C20: update_process raises the not-found error for an undefined name;   *)
(* it fails when the port or the workdir given is invalid; a failed update *)
(* changes nothing; a successful one sets the port and the workdir that    *)
(* were given (the workdir resolved) and leaves the command, the field not *)
(* given, every runtime field and the processes as they were.              *)
C20_UpdateFrame ==
    [][last'.op = "update" =>
          LET n == last'.name
          IN /\ n \notin load_config(doc) <=> last'.err = "not_found"
             /\ ~ValidArgs(last'.port, last'.workdir) => ~last'.ok
             /\ (/\ n \in load_config(doc)
                 /\ ValidArgs(last'.port, last'.workdir)) => last'.ok
             /\ ~last'.ok => doc' = doc
             /\ last'.ok =>
                   doc' = [doc EXCEPT
                      ![n].port = IF last'.port # None THEN last'.port ELSE @,
                      ![n].workdir = IF last'.workdir = None THEN @
                                     ELSE Resolve(last'.workdir)]
             /\ procs' = procs]_vars

(* the port of a running, explicitly stopped name was updated *)
C20_Witness ==
    /\ last.op = "update"
    /\ last.ok
    /\ last.port = 65535
    /\ last.workdir = None
    /\ doc["web"].port = 65535
    /\ Flagged("web")
    /\ get_process_status(doc, procs, "web") # None

(* ---- start-time strings (LocaleSpec) ---- *)

(* C21: is_our_process(pid, expected_start_time) is true whenever the pid  *)
(* is alive and expected_start_time denotes the instant the live process   *)
(* started at, in whichever of the two date orderings each string is       *)
(* written, and false when the two denote different instants.              *)
C21_SameInstantMatches ==
    last.op = "probe" =>
        LET e == doc[last.name]
        IN last.ok <=> /\ procs[e.pid].alive
                       /\ e.start_time # None
                       /\ Instant(procs[e.pid].stime) = Instant(e.start_time)

(* ---- the save of the state file (FileSpec) ---- *)

(* C22: a crash at any point of a save leaves the persisted document equal *)
(* to the complete previous content or to the complete new content, never  *)
(* a truncated or partially written one.                                   *)
C22_CrashLeavesOldOrNew ==
    pc[Saver] = "crashed" =>
        /\ ~IsTruncated(doc)
        /\ doc \in {loc[Saver].prev, loc[Saver].data}

(* ---- the merging saves (MergeSpec) ---- *)

SameRuntime(e, f) ==
    /\ f.pid = e.pid
    /\ f.start_time = e.start_time
    /\ f.explicitly_stopped = e.explicitly_stopped
    /\ f.restart_attempt = e.restart_attempt
    /\ f.last_restart_time = e.last_restart_time
    /\ f.log_path = e.log_path

SameDefinition(e, f) ==
    /\ f.command = e.command
    /\ f.port = e.port
    /\ f.workdir = e.workdir

(* C23: save_config changes only command, port and workdir of the entries  *)
(* it is given and leaves their runtime fields as they were; save_state    *)
(* leaves command, port and workdir of every entry as they were; neither   *)
(* removes an entry that is in the document.                               *)
C23_SavesKeepOtherSide ==
    [][/\ last'.op = "save_config" =>
             \A n \in Names :
                /\ SameRuntime(doc[n], doc'[n])
                /\ n # last'.name => doc'[n] = doc[n]
       /\ last'.op = "save_state" =>
             \A n \in Names :
                doc[n].kind # "none" => SameDefinition(doc[n], doc'[n])
       /\ last'.op \in {"save_config", "save_state"} =>
             \A n \in Names :
                doc[n].kind # "none" => doc'[n].kind # "none"]_vars

(* ---- the runtime record across starts and stops ---- *)

(* C24: explicitly_stopped is false after every successful start, manual   *)
(* or made by a sweep, and it becomes true only by a successful            *)
(* stop_process with mark_explicit = True of that name.                    *)
C24_FlagOnlyAfterStop ==
    [][\A n \in Names :
          /\ (last'.op = "start" /\ last'.ok /\ last'.name = n)
                => ~Flagged(n)'
          /\ (last'.op = "watch" /\ n \in last'.started) => ~Flagged(n)'
          /\ (Flagged(n)' /\ ~Flagged(n))
                => last'.op = "stop" /\ last'.ok /\ last'.name = n]_vars

(* a manual start has succeeded for a name that sweeps had tried before *)
C24_Witness ==
    /\ last.op = "start"
    /\ last.ok
    /\ last.name = "web"
    /\ ~Flagged("web")
    /\ doc["web"].restart_attempt > 0
    /\ get_process_status(doc, procs, "web") # None

(* C25: start_process leaves restart_attempt and last_restart_time as they *)
(* were before the start, 0 and None when the name had no record or a      *)
(* legacy bare pid; a start made by a sweep leaves them as                 *)
(* increment_restart_attempt set them.                                     *)
C25_StartKeepsHistory ==
    [][\A n \in Names :
          /\ (last'.op = "start" /\ last'.name = n) =>
                /\ doc'[n].restart_attempt = doc[n].restart_attempt
                /\ doc'[n].last_restart_time = doc[n].last_restart_time
                /\ doc[n].kind # "dict" =>
                      /\ doc'[n].restart_attempt = 0
                      /\ doc'[n].last_restart_time = None
          /\ (last'.op = "watch" /\ n \in last'.started) =>
                /\ doc'[n].restart_attempt = doc[n].restart_attempt + 1
                /\ doc'[n].last_restart_time = now]_vars

(* a manual start has succeeded for a name with two counted attempts *)
C25_Witness ==
    /\ last.op = "start"
    /\ last.ok
    /\ doc["web"].pid = last.pid
    /\ doc["web"].restart_attempt = 2
    /\ doc["web"].last_restart_time # None

(* ---- the shutdown ---- *)

(* C26: shutdown_all_processes returns without raising and has attempted   *)
(* the stop of every defined name that was running: each such process got  *)
(* the signal or was already gone, whether or not the stop of another name *)
(* failed or its process outlived the wait; a message is printed for the   *)
(* names whose stop failed or whose process outlived the wait, and for no  *)
(* others.                                                                 *)
C26_ShutdownStopsEveryName ==
    [][last'.op = "shutdown" =>
          /\ last'.ok
          /\ \A n \in Names :
                LET pid == get_process_status(doc, procs, n)
                IN IF n \in load_config(doc) /\ pid # None
                   THEN /\ ~procs'[pid].alive \/ procs'[pid].signaled
                        /\ n \in last'.attempted \/ ~procs'[pid].alive
                        /\ n \in last'.refused
                              <=> n \notin last'.attempted \/ procs'[pid].alive
                   ELSE n \notin last'.attempted \cup last'.refused]_vars

(* the stop of web failed, and db, which comes after it, was stopped and   *)
(* outlived the wait                                                       *)
C26_Witness ==
    /\ last.op = "shutdown"
    /\ last.attempted = {"db"}
    /\ last.refused = {"web", "db"}
    /\ ~procs[doc["web"].pid].alive
    /\ procs[doc["db"].pid].alive
    /\ procs[doc["db"].pid].signaled

(* ---- the polling loops (FairWaitSpec) ---- *)

(* C27: wait_for_process_death and wait_for_port_free return for every     *)
(* timeout and poll interval the caller gives: True once the awaited       *)
(* condition is observed, False when the timeout has passed without it.    *)
C27_WaitsReturn ==
    /\ [](pc[Saver] = "returned" =>
            IF loc[Saver].result
            THEN Observed(loc[Saver].fn, procs)
            ELSE loc[Saver].elapsed >= loc[Saver].timeout_seconds)
    /\ <>(pc[Saver] = "returned")

(* ---- the log directory (LogSpec) ---- *)

Contents(dir) == {f.content : f \in dir}

(* C29: a run of migrate_legacy_logs that finds the .migrated marker moves *)
(* no file and changes nothing under the log root, whatever flat files are *)
(* there; the run that does not find it moves every flat file of the log   *)
(* root into the archive, where every file that was there is still there   *)
(* under its name and no two files share a name, and sets the marker.      *)
C29_MigrationOnce ==
    [][last'.op \in {"migrate", "log"} =>
          IF loc.marker
          THEN /\ loc'.root = loc.root
               /\ loc'.old = loc.old
               /\ loc'.legacy = loc.legacy
               /\ loc'.marker
               /\ last'.op = "migrate" => loc' = loc
          ELSE /\ loc'.marker
               /\ loc'.root = {}
               /\ ~loc'.legacy
               /\ loc.old \subseteq loc'.old
               /\ Contents(loc.root) \subseteq Contents(loc'.old)
               /\ loc.legacy => LegacyDir.content \in Contents(loc'.old)
               /\ Cardinality(FileNames(loc'.old)) =
                     Cardinality(loc.old) + Cardinality(loc.root)
                        + (IF loc.legacy THEN 1 ELSE 0)]_vars

(* the first run has archived a.log as a_1.log beside the a.log that was   *)
(* in the archive, and a flat file written later is still in the log root  *)
(* after a second run                                                      *)
C29_Witness ==
    /\ last.op = "migrate"
    /\ loc.marker
    /\ Flat(<<"a">>, "old") \in loc.old
    /\ [name |-> <<"a", 1>>, content |-> <<"root", <<"a">>>>] \in loc.old
    /\ Flat(<<"a">>, "later") \in loc.root

(* ---- the read operations (QuerySpec) ---- *)

(* C30: get_process_status, list_processes and should_restart_process      *)
(* leave the document (and the processes) as they are; a recorded pid and  *)
(* its start time stay as they are, stale or not, until a successful       *)
(* start_process of the name, manual or made by a sweep, or a successful   *)
(* remove_process of it.                                                   *)
C30_QueriesLeaveDocument ==
    [][/\ last'.op \in {"status", "list", "should_restart"} =>
             doc' = doc /\ procs' = procs
       /\ \A n \in Names :
             (/\ doc[n].pid # None
              /\ \/ doc'[n].pid # doc[n].pid
                 \/ doc'[n].start_time # doc[n].start_time)
             => \/ last'.op \in {"start", "remove"}
                      /\ last'.name = n /\ last'.ok
                \/ last'.op = "watch" /\ n \in last'.started]_vars

(* the status of web was asked for and is absent, while the record of web  *)
(* holds the pid and the start time of a process that is dead              *)
C30_Witness ==
    /\ last.op = "status"
    /\ last.name = "web"
    /\ last.pid = None
    /\ doc["web"].pid \in Pids
    /\ doc["web"].start_time # None
    /\ ~is_process_alive(procs, doc["web"].pid)

(* ---- removal among concurrent callers (RemoveSpec) ---- *)

(* C31: every entry of the document belongs to a definition; when          *)
(* remove_process(name) returns, the document holds no entry for name, and *)
(* none reappears, whatever a watch sweep or another command does at the   *)
(* same time (no caller of RemoveSpec adds a definition).                  *)
C31_RemovedStaysRemoved ==
    [][\A n \in Names :
          /\ doc'[n].kind # "none" => n \in load_config(doc')
          /\ doc[n].kind = "none" => doc'[n].kind = "none"
          /\ \A c \in Callers :
                (pc[c] = "remove_save" /\ loc[c].name = n /\ pc'[c] = "idle")
                   => doc'[n].kind = "none"]_vars

(* ---- the backoff between sweeps (SweepSpec) ---- *)

(* C32: when a sweep restarted a name at time t and left restart_attempt  *)
(* = k, no later sweep restarts that name before t + min(2^k, 7200).       *)
C32_NoRestartBeforeBackoff ==
    [][\A n \in Names :
          (last'.op = "watch" /\ n \in last'.attempted /\ loc[n].t # None)
             => now >= loc[n].t + CappedPow2(loc[n].k)]_vars

(* a sweep restarts "web" again, a sweep having restarted it before *)
C32_Witness ==
    /\ last.op = "watch"
    /\ "web" \in last.started
    /\ loc["web"].k >= 2
    /\ loc["web"].t >= 2

(* ---- one instance per name (ConcSpec) ---- *)

(* the live processes the supervisor spawned for the name that no          *)
(* operation has signalled                                                 *)
Instances(n) ==
    {p \in Pids : procs[p].alive /\ procs[p].owner = n /\ ~procs[p].signaled}

(* C33: for every name, at most one process spawned for it is alive        *)
(* without having been sent a termination signal, whatever the callers'    *)
(* starts, stops and sweeps and however they interleave.                   *)
C33_OneInstancePerName ==
    \A n \in Names : Cardinality(Instances(n)) <= 1

(* ---- the processes that are signalled (SignalSpec) ---- *)

(* C34: a termination signal reaches a pid only from stop_process,         *)
(* shutdown_all_processes or remove_process, and only when the pid is      *)
(* recorded in a dict with a start_time equal to the start time of the     *)
(* live process; a reused pid with another start time and the pid of a     *)
(* record without start_time are not signalled.                            *)
C34_SignalsOnlyOwnProcess ==
    [][\A p \in Pids :
          (procs'[p].signaled /\ ~procs[p].signaled)
             => /\ last'.op \in {"stop", "stop_unmarked", "shutdown", "remove"}
                /\ procs[p].alive
                /\ \E n \in Names :
                      /\ doc[n].kind = "dict"
                      /\ doc[n].pid = p
                      /\ doc[n].start_time # None
                      /\ doc[n].start_time = procs[p].stime]_vars

(* stop_process has refused to signal the recorded pid of "web", which an  *)
(* unrelated process started later holds                                   *)
C34_Witness ==
    /\ last.op = "stop"
    /\ last.name = "web"
    /\ last.err = "not_running"
    /\ doc["web"].kind = "dict"
    /\ doc["web"].pid \in Pids
    /\ doc["web"].start_time # None
    /\ procs[doc["web"].pid].alive
    /\ procs[doc["web"].pid].owner = "other"
    /\ procs[doc["web"].pid].stime # doc["web"].start_time
    /\ ~procs[doc["web"].pid].signaled

(* ---- the attempt counter (AttemptSpec) ---- *)

(* state.get(name, {}).get("restart_attempt", 0) *)
RestartAttempt(d, n) == IF d[n].kind = "dict" THEN d[n].restart_attempt ELSE 0

(* C35: while the definition of a name exists, no add, update, start,      *)
(* stop, shutdown or watch sweep lowers its restart_attempt or its         *)
(* backoff; only a sweep that restarts the name changes the counter, and   *)
(* by one.                                                                 *)
C35_AttemptNeverDecreases ==
    [][\A n \in Names :
          (n \in load_config(doc) /\ n \in load_config(doc'))
             => /\ RestartAttempt(doc', n) >= RestartAttempt(doc, n)
                /\ get_restart_backoff_seconds(doc', n)
                      >= get_restart_backoff_seconds(doc, n)
                /\ RestartAttempt(doc', n) # RestartAttempt(doc, n)
                      => /\ last'.op = "watch"
                         /\ n \in last'.attempted
                         /\ RestartAttempt(doc', n)
                               = RestartAttempt(doc, n) + 1]_vars

(* an explicit stop of "web" has succeeded after two restarts by sweeps *)
C35_Witness ==
    /\ last.op = "stop"
    /\ last.name = "web"
    /\ last.ok
    /\ "web" \in load_config(doc)
    /\ RestartAttempt(doc, "web") >= 2

(* ---- starting every definition (StartAllSpec) ---- *)

(* C36: start_all_processes attempts exactly the definitions that are not  *)
(* running, those stopped explicitly included; each name whose spawn       *)
(* succeeds is running afterwards with explicitly_stopped false; a name    *)
(* whose spawn fails keeps its record and does not keep the names after    *)
(* it from being attempted.                                                *)
C36_StartAllStartsAbsent ==
    [][last'.op = "start_all" =>
          /\ last'.attempted = Absent(doc, procs)
          /\ last'.started = last'.attempted \ last'.refused
          /\ \A n \in Names :
                /\ n \in last'.started
                      => /\ get_process_status(doc', procs', n) # None
                         /\ get_process_status(doc', procs', n) \notin
                               {p \in Pids : procs[p].alive}
                         /\ doc'[n].explicitly_stopped = FALSE
                /\ n \notin last'.started => doc'[n] = doc[n]]_vars

(* the spawn of "web" failed and "db", stopped explicitly or not, was      *)
(* started by the same call                                                *)
C36_Witness ==
    /\ last.op = "start_all"
    /\ "web" \in last.refused
    /\ "db" \in last.started
    /\ get_process_status(doc, procs, "db") # None

====
